---------------------------- MODULE Spec2Model ----------------------------
(***************************************************************************)
(* The instruction codec of ChainCall's Anchor mode                        *)
(* (Frontend/client/src/pages/AnchorMode.tsx): the argument encoder of     *)
(* ExecutorModal.handleSend with its helpers.                              *)
(*                                                                         *)
(* Texts are sequences of one-character strings.  Integers of the program  *)
(* (JavaScript BigInt, and Number where it holds an integer) are modelled  *)
(* with arbitrary precision as a sign and a magnitude, the magnitude being *)
(* its little-endian base-256 digits without high zero digits: TLC's own   *)
(* integers are 32 bits wide and could not hold a u32.                     *)
(***************************************************************************)
EXTENDS Integers, Sequences, FiniteSets, TLC

(***************************************************************************)
(* Characters and texts                                                    *)
(***************************************************************************)
Digits == <<"0", "1", "2", "3", "4", "5", "6", "7", "8", "9">>

UpperLetters ==
  <<"A", "B", "C", "D", "E", "F", "G", "H", "I", "J", "K", "L", "M",
    "N", "O", "P", "Q", "R", "S", "T", "U", "V", "W", "X", "Y", "Z">>

LowerLetters ==
  <<"a", "b", "c", "d", "e", "f", "g", "h", "i", "j", "k", "l", "m",
    "n", "o", "p", "q", "r", "s", "t", "u", "v", "w", "x", "y", "z">>

\* Position of character c in the sequence s, 0 when it is not there.
IndexOf(s, c) ==
  IF \E i \in 1..Len(s) : s[i] = c
  THEN CHOOSE i \in 1..Len(s) : s[i] = c
  ELSE 0

IsDigit(c) == IndexOf(Digits, c) > 0
IsUpper(c) == IndexOf(UpperLetters, c) > 0

\* String.prototype.toLowerCase on one character of the modelled alphabet.
LowerChar(c) == IF IsUpper(c) THEN LowerLetters[IndexOf(UpperLetters, c)] ELSE c

\* String.prototype.toLowerCase
ToLowerCase(t) == [i \in 1..Len(t) |-> LowerChar(t[i])]

\* The white space String.prototype.trim, BigInt() and Number() strip.
IsSpace(c) == c \in {" ", "\t", "\n"}

RECURSIVE TrimStart(_)
TrimStart(t) ==
  IF t # <<>> /\ IsSpace(Head(t)) THEN TrimStart(Tail(t)) ELSE t

RECURSIVE TrimEnd(_)
TrimEnd(t) ==
  IF t # <<>> /\ IsSpace(t[Len(t)]) THEN TrimEnd(SubSeq(t, 1, Len(t) - 1)) ELSE t

\* String.prototype.trim
Trim(t) == TrimEnd(TrimStart(t))

\* UTF-8 code units of one character: ASCII is one byte, the two non-ASCII
\* characters of the model take two and three bytes.
AsciiOthers == <<" ", "!", "+", "-", ".", "_", "[", "]", ":", "{", "}">>
AsciiOtherCodes == <<32, 33, 43, 45, 46, 95, 91, 93, 58, 123, 125>>

Utf8Char(c) ==
  CASE c \in {"a", "e", "l", "o"} -> <<96 + IndexOf(LowerLetters, c)>>
    [] IsDigit(c) -> <<47 + IndexOf(Digits, c)>>
    [] IsUpper(c) -> <<64 + IndexOf(UpperLetters, c)>>
    [] IndexOf(LowerLetters, c) > 0 -> <<96 + IndexOf(LowerLetters, c)>>
    [] IndexOf(AsciiOthers, c) > 0 -> <<AsciiOtherCodes[IndexOf(AsciiOthers, c)]>>
    [] c = "\t" -> <<9>>
    [] c = "\n" -> <<10>>
    [] c = "e'" -> <<195, 169>>          \* U+00E9
    [] c = "EUR" -> <<226, 130, 172>>    \* U+20AC

\* Buffer.from(text, 'utf8')
RECURSIVE Utf8(_)
Utf8(t) ==
  IF t = <<>> THEN <<>>
  ELSE IF Len(t) = 1 THEN Utf8Char(t[1])
  ELSE LET h == Len(t) \div 2
       IN  Utf8(SubSeq(t, 1, h)) \o Utf8(SubSeq(t, h + 1, Len(t)))

(***************************************************************************)
(* Arbitrary-precision integers                                            *)
(***************************************************************************)
\* Drop high zero digits.
RECURSIVE Norm(_)
Norm(m) ==
  IF m # <<>> /\ m[Len(m)] = 0 THEN Norm(SubSeq(m, 1, Len(m) - 1)) ELSE m

\* m * k + c for a magnitude m and small k, c.
RECURSIVE MulAdd(_, _, _)
MulAdd(m, k, c) ==
  IF m = <<>>
  THEN IF c = 0 THEN <<>> ELSE <<c % 256>> \o MulAdd(<<>>, k, c \div 256)
  ELSE LET t == Head(m) * k + c
       IN  <<t % 256>> \o MulAdd(Tail(m), k, t \div 256)

\* -1, 0, 1 as a < b, a = b, a > b, for normalised magnitudes.
RECURSIVE CmpMag(_, _)
CmpMag(a, b) ==
  IF Len(a) # Len(b) THEN (IF Len(a) < Len(b) THEN -1 ELSE 1)
  ELSE IF a = <<>> THEN 0
  ELSE IF a[Len(a)] # b[Len(b)] THEN (IF a[Len(a)] < b[Len(b)] THEN -1 ELSE 1)
  ELSE CmpMag(SubSeq(a, 1, Len(a) - 1), SubSeq(b, 1, Len(b) - 1))

\* a - b - borrow digit by digit, for a >= b + borrow; high zeros kept.
RECURSIVE SubDigits(_, _, _)
SubDigits(a, b, borrow) ==
  IF a = <<>> THEN <<>>
  ELSE LET bd == IF b = <<>> THEN 0 ELSE Head(b)
           t  == Head(a) - bd - borrow
           bt == IF b = <<>> THEN <<>> ELSE Tail(b)
       IN  IF t < 0
           THEN <<t + 256>> \o SubDigits(Tail(a), bt, 1)
           ELSE <<t>> \o SubDigits(Tail(a), bt, 0)

SubMag(a, b) == Norm(SubDigits(a, b, 0))

\* a + b + carry digit by digit.
RECURSIVE AddDigits(_, _, _)
AddDigits(a, b, carry) ==
  IF a = <<>> /\ b = <<>> THEN (IF carry = 0 THEN <<>> ELSE <<carry>>)
  ELSE LET ad == IF a = <<>> THEN 0 ELSE Head(a)
           bd == IF b = <<>> THEN 0 ELSE Head(b)
           at == IF a = <<>> THEN <<>> ELSE Tail(a)
           bt == IF b = <<>> THEN <<>> ELSE Tail(b)
           t  == ad + bd + carry
       IN  <<t % 256>> \o AddDigits(at, bt, t \div 256)

AddMag(a, b) == AddDigits(a, b, 0)

\* 2^k
Pow2(k) == [i \in 1..((k \div 8) + 1) |-> IF i = (k \div 8) + 1 THEN 2 ^ (k % 8) ELSE 0]

\* Remainder and quotient of m by a small d: long division from the high
\* digit, r the remainder carried in.
RECURSIVE RemHigh(_, _, _)
RemHigh(m, d, r) ==
  IF m = <<>> THEN r
  ELSE RemHigh(SubSeq(m, 1, Len(m) - 1), d, (r * 256 + m[Len(m)]) % d)

RECURSIVE QuotHigh(_, _, _)
QuotHigh(m, d, r) ==
  IF m = <<>> THEN <<>>
  ELSE QuotHigh(SubSeq(m, 1, Len(m) - 1), d, (r * 256 + m[Len(m)]) % d)
       \o <<(r * 256 + m[Len(m)]) \div d>>

DivMod(m, d) == [q |-> Norm(QuotHigh(m, d, 0)), r |-> RemHigh(m, d, 0)]

\* The integer with sign and magnitude; zero has no sign.
Big(neg, mag) == [neg |-> neg /\ mag # <<>>, mag |-> mag]

Zero == Big(FALSE, <<>>)

\* a < b on integers
BigLess(a, b) ==
  IF a.neg # b.neg THEN a.neg
  ELSE IF a.neg THEN CmpMag(a.mag, b.mag) = 1
  ELSE CmpMag(a.mag, b.mag) = -1

\* a - 1 and -a
BigPred(a) ==
  IF a.neg THEN Big(TRUE, AddMag(a.mag, <<1>>))
  ELSE IF a.mag = <<>> THEN Big(TRUE, <<1>>)
  ELSE Big(FALSE, SubMag(a.mag, <<1>>))

BigNegate(a) == Big(~a.neg, a.mag)

\* Decimal digits of a magnitude, most significant first (none for zero).
RECURSIVE DecimalDigits(_)
DecimalDigits(m) ==
  IF m = <<>> THEN <<>>
  ELSE DecimalDigits(Norm(QuotHigh(m, 10, 0))) \o <<Digits[RemHigh(m, 10, 0) + 1]>>

\* BigInt.prototype.toString(), and Number's conversion to text for an integer
\* below 2^53.
BigToString(a) ==
  IF a.mag = <<>> THEN <<"0">>
  ELSE (IF a.neg THEN <<"-">> ELSE <<>>) \o DecimalDigits(a.mag)

\* The magnitude of a natural number of the model checker.
RECURSIVE NatMag(_)
NatMag(k) == IF k = 0 THEN <<>> ELSE <<k % 256>> \o NatMag(k \div 256)

(***************************************************************************)
(* Text to number conversions of the JavaScript runtime                    *)
(***************************************************************************)
\* Value of a digit in radix 16 and below; 99 for any other character.
DigitVal(c) ==
  IF IsDigit(c) THEN IndexOf(Digits, c) - 1
  ELSE LET l == IndexOf(LowerLetters, LowerChar(c))
       IN  IF l \in 1..6 THEN 9 + l ELSE 99

AllDigits(t, radix) == \A i \in 1..Len(t) : DigitVal(t[i]) < radix

\* The magnitude written by the digits t in the given radix, after acc.
RECURSIVE RadixMag(_, _, _)
RadixMag(t, radix, acc) ==
  IF t = <<>> THEN acc
  ELSE RadixMag(Tail(t), radix, MulAdd(acc, radix, DigitVal(Head(t))))

\* First position of t holding a character of set S, 0 when there is none.
FirstIndex(t, S) ==
  IF \E i \in 1..Len(t) : t[i] \in S
  THEN CHOOSE i \in 1..Len(t) : t[i] \in S /\ \A j \in 1..(i - 1) : t[j] \notin S
  ELSE 0

\* Radix of a 0x / 0o / 0b literal, 0 when s has no such prefix.
PrefixRadix(s) ==
  IF Len(s) >= 2 /\ s[1] = "0"
  THEN CASE LowerChar(s[2]) = "x" -> 16
         [] LowerChar(s[2]) = "o" -> 8
         [] LowerChar(s[2]) = "b" -> 2
         [] OTHER -> 0
  ELSE 0

\* s without its sign, if it has one
Unsigned(s) == IF s # <<>> /\ Head(s) \in {"+", "-"} THEN Tail(s) ELSE s

IsNegative(s) == s # <<>> /\ Head(s) = "-"

\* The integer the digits write, none when they are no digits of the radix.
RadixLiteral(neg, digits, radix) ==
  IF digits # <<>> /\ AllDigits(digits, radix)
  THEN [ok |-> TRUE, val |-> Big(neg, RadixMag(digits, radix, <<>>))]
  ELSE [ok |-> FALSE]

\* BigInt(text): StringToBigInt.  White space is stripped, the empty text is
\* 0n, a decimal literal may carry a sign, a 0x/0o/0b literal may not, and
\* anything else (a fraction, an exponent, other characters) is a SyntaxError.
BigIntOfTrimmed(s) ==
  IF s = <<>> THEN [ok |-> TRUE, val |-> Zero]
  ELSE IF PrefixRadix(s) # 0
  THEN RadixLiteral(FALSE, SubSeq(s, 3, Len(s)), PrefixRadix(s))
  ELSE RadixLiteral(IsNegative(s), Unsigned(s), 10)

StringToBigInt(t) == BigIntOfTrimmed(Trim(t))

\* A small natural number from its decimal digits.
RECURSIVE SmallNat(_, _)
SmallNat(t, acc) ==
  IF t = <<>> THEN acc ELSE SmallNat(Tail(t), acc * 10 + DigitVal(Head(t)))

\* The parts of a StrDecimalLiteral without its sign: mantissa and exponent
\* part (what is before and after the first e or E), integer and fraction
\* digits (what is before and after the first point of the mantissa).
Before(t, pos) == IF pos = 0 THEN t ELSE SubSeq(t, 1, pos - 1)
After(t, pos) == IF pos = 0 THEN <<>> ELSE SubSeq(t, pos + 1, Len(t))

HasExponent(body) == FirstIndex(body, {"e", "E"}) # 0
Mantissa(body) == Before(body, FirstIndex(body, {"e", "E"}))
ExponentPart(body) == After(body, FirstIndex(body, {"e", "E"}))
IntDigits(mant) == Before(mant, FirstIndex(mant, {"."}))
FracDigits(mant) == After(mant, FirstIndex(mant, {"."}))

\* The exponent as a small integer
ExponentOf(expt) ==
  IF IsNegative(expt) THEN 0 - SmallNat(Unsigned(expt), 0)
  ELSE SmallNat(Unsigned(expt), 0)

\* Whether the unsigned text is digits [. digits] [e [sign] digits], with a
\* digit before or after the point.
DecimalValid(body) ==
  /\ AllDigits(IntDigits(Mantissa(body)), 10)
  /\ AllDigits(FracDigits(Mantissa(body)), 10)
  /\ Len(IntDigits(Mantissa(body))) + Len(FracDigits(Mantissa(body))) > 0
  /\ HasExponent(body) =>
       /\ Unsigned(ExponentPart(body)) # <<>>
       /\ AllDigits(Unsigned(ExponentPart(body)), 10)

\* m / 10 when 10 divides m, <<256>> (no magnitude) otherwise
ExactTenth(m, x) == IF x.r = 0 THEN x.q ELSE <<256>>

\* m * 10^e as an integer, or a fraction when 10^(-e) does not divide m.
RECURSIVE ScaleDecimal(_, _, _)
ScaleDecimal(neg, m, e) ==
  IF m = <<256>> THEN [kind |-> "fraction", val |-> Zero]
  ELSE IF m = <<>> \/ e = 0 THEN [kind |-> "int", val |-> Big(neg, m)]
  ELSE IF e > 0 THEN ScaleDecimal(neg, MulAdd(m, 10, 0), e - 1)
  ELSE ScaleDecimal(neg, ExactTenth(m, DivMod(m, 10)), e + 1)

DecimalLiteral(neg, body) ==
  IF DecimalValid(body)
  THEN ScaleDecimal(neg,
                    RadixMag(IntDigits(Mantissa(body)) \o FracDigits(Mantissa(body)),
                             10, <<>>),
                    ExponentOf(ExponentPart(body)) - Len(FracDigits(Mantissa(body))))
  ELSE [kind |-> "nonfinite", val |-> Zero]

AsNumber(lit) ==
  IF lit.ok THEN [kind |-> "int", val |-> lit.val]
  ELSE [kind |-> "nonfinite", val |-> Zero]

\* Number(text): StringToNumber.  White space is stripped, the empty text is
\* 0, a 0x/0o/0b literal is an integer, a decimal literal may carry a sign, a
\* fraction and an exponent; anything else is NaN.  NaN and the infinities
\* are one kind here: the caller only asks Number.isFinite.
NumberOfTrimmed(s) ==
  IF s = <<>> THEN [kind |-> "int", val |-> Zero]
  ELSE IF PrefixRadix(s) # 0
  THEN AsNumber(RadixLiteral(FALSE, SubSeq(s, 3, Len(s)), PrefixRadix(s)))
  ELSE DecimalLiteral(IsNegative(s), Unsigned(s))

StringToNumber(t) == NumberOfTrimmed(Trim(t))

RECURSIVE StripLeadingZeros(_)
StripLeadingZeros(t) ==
  IF t # <<>> /\ Head(t) = "0" THEN StripLeadingZeros(Tail(t)) ELSE t

RECURSIVE StripTrailingZeros(_)
StripTrailingZeros(t) ==
  IF t # <<>> /\ t[Len(t)] = "0"
  THEN StripTrailingZeros(SubSeq(t, 1, Len(t) - 1)) ELSE t

\* The texts on which StringToNumber above, which is exact, is what the
\* runtime's IEEE-754 double gives: at most 15 significant digits and 2
\* exponent digits (no rounding to another integer, no overflow to Infinity,
\* no underflow to 0), or a radix literal below 2^48.
ExactDecimal(body) ==
  DecimalValid(body) =>
    /\ Len(StripTrailingZeros(StripLeadingZeros(
             IntDigits(Mantissa(body)) \o FracDigits(Mantissa(body))))) <= 15
    /\ Len(Unsigned(ExponentPart(body))) <= 2

ExactTrimmed(s) ==
  IF PrefixRadix(s) # 0 THEN Len(s) <= 8 ELSE ExactDecimal(Unsigned(s))

InDoubleDomain(t) == ExactTrimmed(Trim(t))

\* Number.prototype.toString of an integer: its decimal digits up to 21 of
\* them, and the exponent form d.ddde+n beyond.
Fraction(digits) == IF digits = <<>> THEN <<>> ELSE <<".">> \o digits

NumberDigitsToString(d) ==
  IF d = <<>> THEN <<"0">>
  ELSE IF Len(d) <= 21 THEN d
  ELSE <<Head(d)>> \o Fraction(StripTrailingZeros(Tail(d)))
       \o <<"e", "+">> \o DecimalDigits(NatMag(Len(d) - 1))

NumberToString(a) ==
  (IF a.neg THEN <<"-">> ELSE <<>>) \o NumberDigitsToString(DecimalDigits(a.mag))

(***************************************************************************)
(* The Buffer of the `buffer` package, as handleSend uses it               *)
(***************************************************************************)
Min(a, b) == IF a < b THEN a ELSE b

\* Buffer.alloc(n)
BufferAlloc(n) == [i \in 1..n |-> 0]

\* src.copy(target, targetStart): copies what fits and drops the rest.
BufferCopy(src, target, targetStart) ==
  LET ts == Min(targetStart, Len(target))
      n  == Min(Len(src), Len(target) - ts)
  IN  [i \in 1..Len(target) |->
         IF i - 1 >= ts /\ i - 1 < ts + n THEN src[i - ts] ELSE target[i]]

\* A slice that does not clamp its end and pads with zero bytes: the fault of
\* a payload longer than the buffer.
BufferSliceUnclamped(buffer, start, end) ==
  [i \in 1..(end - start) |-> IF start + i <= Len(buffer) THEN buffer[start + i] ELSE 0]

\* buffer.slice(start, end): both ends are clamped to the buffer.
BufferSlice(buffer, start, end) ==
  SubSeq(buffer, Min(start, Len(buffer)) + 1, Min(end, Len(buffer)))

\* Digit i (from 0) of a magnitude: (m >> 8i) & 0xff
ByteAt(m, i) == IF i + 1 <= Len(m) THEN m[i + 1] ELSE 0

\* The bytes of value over byteLength bytes, little-endian, a negative value
\* as 2^bits + value.
LittleEndian(value, byteLength) ==
  LET normalized == IF value.neg
                    THEN SubMag(Pow2(8 * byteLength), value.mag)
                    ELSE value.mag
  IN  [i \in 1..byteLength |-> ByteAt(normalized, i - 1)]

MinOf(bits, signed) == IF signed THEN Big(TRUE, Pow2(bits - 1)) ELSE Zero

MaxOf(bits, signed) ==
  IF signed THEN Big(FALSE, SubMag(Pow2(bits - 1), <<1>>))
  ELSE Big(FALSE, SubMag(Pow2(bits), <<1>>))

\* buffer.writeUInt8 / writeInt8 / write(U)Int16LE / write(U)Int32LE at offset:
\* checkInt throws a RangeError for a value outside the type and for a write
\* that would end past the buffer.
BufferWriteIntLE(buffer, value, offset, byteLength, signed) ==
  IF BigLess(MaxOf(8 * byteLength, signed), value)
     \/ BigLess(value, MinOf(8 * byteLength, signed))
  THEN [ok |-> FALSE, msg |-> <<"\"value\" argument is out of bounds">>]
  ELSE IF offset + byteLength > Len(buffer)
  THEN [ok |-> FALSE, msg |-> <<"Index out of range">>]
  ELSE [ok |-> TRUE,
        buffer |-> BufferCopy(LittleEndian(value, byteLength), buffer, offset)]

(***************************************************************************)
(* PublicKey of @solana/web3.js, from its base-58 text                     *)
(***************************************************************************)
Base58Alphabet ==
  <<"1", "2", "3", "4", "5", "6", "7", "8", "9",
    "A", "B", "C", "D", "E", "F", "G", "H", "J", "K", "L", "M", "N", "P",
    "Q", "R", "S", "T", "U", "V", "W", "X", "Y", "Z",
    "a", "b", "c", "d", "e", "f", "g", "h", "i", "j", "k", "m", "n", "o",
    "p", "q", "r", "s", "t", "u", "v", "w", "x", "y", "z">>

RECURSIVE Base58Mag(_, _)
Base58Mag(t, acc) ==
  IF t = <<>> THEN acc
  ELSE Base58Mag(Tail(t), MulAdd(acc, 58, IndexOf(Base58Alphabet, Head(t)) - 1))

RECURSIVE LeadingOnes(_)
LeadingOnes(t) ==
  IF t # <<>> /\ Head(t) = "1" THEN 1 + LeadingOnes(Tail(t)) ELSE 0

Reverse(q) == [i \in 1..Len(q) |-> q[Len(q) + 1 - i]]

\* bs58.decode: a zero byte for each leading "1", then the big-endian bytes of
\* the number the remaining characters write in base 58.
bs58Decode(t) ==
  IF \E i \in 1..Len(t) : IndexOf(Base58Alphabet, t[i]) = 0
  THEN [ok |-> FALSE]
  ELSE [ok |-> TRUE,
        bytes |-> [i \in 1..LeadingOnes(t) |-> 0]
                  \o Reverse(Base58Mag(SubSeq(t, LeadingOnes(t) + 1, Len(t)), <<>>))]

\* new PublicKey(value).toBuffer(): throws for undefined, for text that is not
\* base 58 and for text that does not decode to 32 bytes.
PublicKeyLength == 32

KeyOfDecoded(d) ==
  IF d.ok /\ Len(d.bytes) = PublicKeyLength
  THEN [ok |-> TRUE, bytes |-> d.bytes]
  ELSE [ok |-> FALSE]

PublicKeyBytes(raw) ==
  IF ~raw.def THEN [ok |-> FALSE] ELSE KeyOfDecoded(bs58Decode(raw.text))

(***************************************************************************)
(* The codec's helpers                                                     *)
(***************************************************************************)
TxtString == <<"s", "t", "r", "i", "n", "g">>
TxtVec == <<"v", "e", "c">>
TxtArray == <<"a", "r", "r", "a", "y">>
TxtBool == <<"b", "o", "o", "l">>
TxtPubkey == <<"p", "u", "b", "k", "e", "y">>
TxtPublickey == <<"p", "u", "b", "l", "i", "c", "k", "e", "y">>
TxtTrue == <<"t", "r", "u", "e">>
TxtFalse == <<"f", "a", "l", "s", "e">>
TxtUndefined == <<"u", "n", "d", "e", "f", "i", "n", "e", "d">>

\* A resolver that looks one level into an option and no further: the fault of
\* not recursing.
resolveArgTypeShallow(type) ==
  IF type.tag = "name" THEN type.name
  ELSE IF type.tag = "defined"
  THEN (IF type.name = <<>> THEN TxtString ELSE type.name)
  ELSE IF type.tag = "vec" THEN TxtVec
  ELSE IF type.tag \in {"option", "coption"}
  THEN (IF type.of.tag = "name" THEN type.of.name ELSE TxtString)
  ELSE IF type.tag = "array" THEN TxtArray
  ELSE TxtString

\* A type of the interface schema is a text (a type name) or an object with one
\* of the keys defined, vec, option, coption, array; tag "other" is any other
\* value.
RECURSIVE resolveArgType(_)
resolveArgType(type) ==
  IF type.tag = "name" THEN type.name
  ELSE IF type.tag = "defined"
  THEN (IF type.name = <<>> THEN TxtString ELSE type.name)
  ELSE IF type.tag = "vec" THEN TxtVec
  ELSE IF type.tag = "option" THEN resolveArgType(type.of)
  ELSE IF type.tag = "coption" THEN resolveArgType(type.of)
  ELSE IF type.tag = "array" THEN TxtArray
  ELSE TxtString

\* `${raw}` for a value of the value map
TemplateText(raw) == IF raw.def THEN raw.text ELSE TxtUndefined

BIGINT_BYTE_LENGTH(typeName) ==
  CASE typeName = <<"u", "6", "4">> -> 8
    [] typeName = <<"i", "6", "4">> -> 8
    [] typeName = <<"u", "1", "2", "8">> -> 16
    [] typeName = <<"i", "1", "2", "8">> -> 16
    [] OTHER -> 0

\* The second half of parseBigIntInput: BigInt(normalized), a SyntaxError
\* caught and thrown again with the argument's name.
BigIntOrThrow(parsed, raw, argName) ==
  IF parsed.ok THEN parsed
  ELSE [ok |-> FALSE,
        msg |-> <<"[">> \o argName \o <<"] Invalid integer value: ">>
                \o TemplateText(raw)]

parseBigIntInput(raw, argName) ==
  BigIntOrThrow(BigIntOfTrimmed(Trim(IF raw.def THEN raw.text ELSE <<"0">>)),
                raw, argName)

ensureBigIntRange(value, bits, signed, argName, typeLabel) ==
  IF signed
  THEN IF BigLess(value, MinOf(bits, TRUE)) \/ BigLess(MaxOf(bits, TRUE), value)
       THEN [ok |-> FALSE,
             msg |-> <<"[">> \o argName \o <<"] Value ">> \o BigToString(value)
                     \o <<" is out of range for ">> \o typeLabel]
       ELSE [ok |-> TRUE]
  ELSE IF BigLess(value, Zero)
       THEN [ok |-> FALSE,
             msg |-> <<"[">> \o argName \o <<"] ">> \o typeLabel
                     \o <<" must be greater than or equal to 0">>]
       ELSE IF BigLess(MaxOf(bits, FALSE), value)
       THEN [ok |-> FALSE,
             msg |-> <<"[">> \o argName \o <<"] Value ">> \o BigToString(value)
                     \o <<" is out of range for ">> \o typeLabel]
       ELSE [ok |-> TRUE]

\* The loop of writeBigIntToBuffer.  It writes by index: a write past the end
\* of the buffer is dropped silently.
WriteBytesAt(buffer, bytes, offset) ==
  [i \in 1..Len(buffer) |->
     IF i - 1 >= offset /\ i - 1 < offset + Len(bytes)
     THEN bytes[i - offset] ELSE buffer[i]]

\* writeBigIntToBuffer after the parse
WriteParsedBigInt(buffer, parsed, offset, byteLength, typeName, argName) ==
  IF ~parsed.ok THEN parsed
  ELSE IF ~ensureBigIntRange(parsed.val, byteLength * 8, Head(typeName) = "i",
                             argName, typeName).ok
  THEN ensureBigIntRange(parsed.val, byteLength * 8, Head(typeName) = "i",
                         argName, typeName)
  ELSE [ok |-> TRUE,
        buffer |-> WriteBytesAt(buffer, LittleEndian(parsed.val, byteLength), offset),
        written |-> byteLength]

writeBigIntToBuffer(buffer, rawValue, offset, typeName, argName) ==
  IF BIGINT_BYTE_LENGTH(typeName) = 0
  THEN [ok |-> FALSE, msg |-> <<"Unsupported bigint type ">> \o typeName]
  ELSE WriteParsedBigInt(buffer, parseBigIntInput(rawValue, argName), offset,
                         BIGINT_BYTE_LENGTH(typeName), typeName, argName)

\* The second half of parseIntegerInput, num being Number(raw)
IntegerOrThrow(num, argName) ==
  IF num.kind = "nonfinite"
  THEN [ok |-> FALSE,
        msg |-> <<"[">> \o argName \o <<"] Value must be a finite number">>]
  ELSE IF num.kind = "fraction"
  THEN [ok |-> FALSE,
        msg |-> <<"[">> \o argName \o <<"] Value must be an integer">>]
  ELSE [ok |-> TRUE, val |-> num.val]

parseIntegerInput(raw, argName) ==
  IF ~raw.def \/ raw.text = <<>> THEN [ok |-> TRUE, val |-> Zero]
  ELSE IntegerOrThrow(StringToNumber(raw.text), argName)

\* a + 1
BigSucc(a) == BigNegate(BigPred(BigNegate(a)))

\* A range check that lets the integer one past the maximum through: the fault
\* of an off-by-one bound.
ensureNumberRangeOffByOne(value, bits, signed, argName, typeLabel) ==
  IF BigLess(value, MinOf(bits, signed)) \/ BigLess(BigSucc(MaxOf(bits, signed)), value)
  THEN [ok |-> FALSE,
        msg |-> <<"[">> \o argName \o <<"] Value ">> \o NumberToString(value)
                \o <<" is out of range for ">> \o typeLabel]
  ELSE [ok |-> TRUE]

ensureNumberRange(value, bits, signed, argName, typeLabel) ==
  IF BigLess(value, MinOf(bits, signed)) \/ BigLess(MaxOf(bits, signed), value)
  THEN [ok |-> FALSE,
        msg |-> <<"[">> \o argName \o <<"] Value ">> \o NumberToString(value)
                \o <<" is out of range for ">> \o typeLabel]
  ELSE [ok |-> TRUE]

(***************************************************************************)
(* The discriminator                                                       *)
(***************************************************************************)
\* str.replace(/([A-Z])/g, ...): an underscore before every upper-case letter
\* that is not at offset 0, the letter lower-cased.
RECURSIVE SnakeFrom(_, _)
SnakeFrom(str, i) ==
  IF i > Len(str) THEN <<>>
  ELSE (IF IsUpper(str[i])
        THEN (IF i > 1 THEN <<"_">> ELSE <<>>) \o <<LowerChar(str[i])>>
        ELSE <<str[i]>>)
       \o SnakeFrom(str, i + 1)

\* ... .replace(/^_/, ''): a leading underscore is removed.
toSnakeCase(str) ==
  LET replaced == SnakeFrom(str, 1)
  IN  IF replaced # <<>> /\ Head(replaced) = "_" THEN Tail(replaced) ELSE replaced

TxtInitialize == <<"i", "n", "i", "t", "i", "a", "l", "i", "z", "e">>
TxtSetAuthority == <<"s", "e", "t", "A", "u", "t", "h", "o", "r", "i", "t", "y">>
TxtSet_authority == <<"s", "e", "t", "_", "a", "u", "t", "h", "o", "r", "i", "t", "y">>
TxtGlobal == <<"g", "l", "o", "b", "a", "l", ":">>
TxtInit == <<"I", "n", "i", "t">>
TxtUnderInit == <<"_", "i", "n", "i", "t">>

\* The first 8 bytes of SHA-256 of the text, for the texts the model hashes
\* (the digests are those of the real function).
Sha256First8(t) ==
  CASE t = TxtGlobal \o TxtInitialize -> <<175, 175, 109, 31, 13, 152, 155, 237>>
    [] t = TxtGlobal \o TxtSet_authority -> <<133, 250, 37, 21, 110, 163, 26, 121>>
    [] t = TxtGlobal \o <<"i", "n", "i", "t">> -> <<220, 59, 207, 236, 108, 250, 47, 100>>
    [] t = TxtGlobal \o TxtUnderInit -> <<61, 211, 161, 28, 109, 69, 111, 212>>

getInstructionDiscriminator(instructionName) ==
  Sha256First8(TxtGlobal \o toSnakeCase(instructionName))

(***************************************************************************)
(* State                                                                   *)
(***************************************************************************)
VARIABLES
  instruction,      \* the method of the modal: [name, args], args of [name, type]
  argValues,        \* the value map: argument name -> text, names may be missing
  pc,               \* where handleSend is: idle, encoding, built, failed
  argsBuffer,       \* handleSend's buffer
  offset,           \* handleSend's write offset
  argIndex,         \* the argument the loop of handleSend is at
  finalBuffer,      \* the instruction data handleSend builds
  isSending,
  responseStatus,   \* <<>> is null
  responseMessage,
  rawReturnData,    \* [def |-> FALSE] is null; else programId and data
  returnLayout,     \* the fields the user declared: [name, type]
  returnDataInfo,   \* what formatReturnData returned, [def |-> FALSE] is null
  retPc,            \* where formatReturnData is: ready, decoding, broken, done
  retBuffer,        \* decodeWithLayout's buffer
  retOffset,        \* decodeWithLayout's read offset
  retIndex,         \* the field the loop of decodeWithLayout is at
  retDecoded,       \* decodeWithLayout's decoded
  accountValues,    \* the account map of the modal: account name -> text
  generatedKeypairs,\* account name -> the public key of the keypair generated
  backendWallet,    \* <<>> is null
  txLogs,
  request,          \* the body handleSend posted, [def |-> FALSE] before
  response,         \* what the server answers to the request in flight
  fields,           \* InstructionBuilder: the field list
  bufferHex,        \* InstructionBuilder: the packed bytes, "" at first
  isPacking,
  error,            \* InstructionBuilder: <<>> is null
  packTimer,        \* the debounce timers pending, each with its field list
  packRequests,     \* the pack requests in flight, each with its field list
  txStatus,         \* InstructionBuilder: <<>> is null
  submitted,        \* what executeTransaction put in the instruction
  wallet,           \* WalletContextProvider: the wallet selected
  connected,
  connecting,
  isMounted,
  isConnectingRef,
  timers,           \* the connect timers pending, each with its wallet
  connects,         \* the connect() calls outstanding, each with its wallet
  disconnecting     \* disconnectWallet waits for disconnect()

\* The state of the encoder and the state of the decoder.
encVars == <<instruction, argValues, pc, argsBuffer, offset, argIndex, finalBuffer,
             isSending, responseStatus, responseMessage>>
decVars == <<rawReturnData, returnLayout, returnDataInfo, retPc, retBuffer,
             retOffset, retIndex, retDecoded>>

\* The rest of the modal's state, the state of InstructionBuilder and the state
\* of WalletContextProvider.
modalVars == <<accountValues, generatedKeypairs, backendWallet, txLogs, request, response>>
builderVars == <<fields, bufferHex, isPacking, error, packTimer, packRequests,
                 txStatus, submitted>>
walletVars == <<wallet, connected, connecting, isMounted, isConnectingRef, timers, connects,
                disconnecting>>

vars == <<instruction, argValues, pc, argsBuffer, offset, argIndex, finalBuffer,
          isSending, responseStatus, responseMessage, rawReturnData, returnLayout,
          returnDataInfo, retPc, retBuffer, retOffset, retIndex, retDecoded,
          accountValues, generatedKeypairs, backendWallet, txLogs, request, response,
          fields, bufferHex, isPacking, error, packTimer, packRequests, txStatus,
          submitted, wallet, connected, connecting, isMounted, isConnectingRef,
          timers, connects, disconnecting>>

\* Capacity of handleSend's buffer, and the length of a discriminator.
BufferCapacity == 1024
DiscriminatorLength == 8

(***************************************************************************)
(* handleSend: the encoder                                                 *)
(***************************************************************************)
\* argValues[name]: undefined when the map has no such name
ValueOf(values, name) ==
  IF name \in DOMAIN values
  THEN [def |-> TRUE, text |-> values[name]]
  ELSE [def |-> FALSE, text |-> <<>>]

\* value || '' and value ?? ''
OrEmpty(raw) == IF raw.def THEN raw.text ELSE <<>>

CurArg == instruction.args[argIndex]
CurValue == ValueOf(argValues, CurArg.name)
CurResolvedType == resolveArgType(CurArg.type)
CurTypeName == ToLowerCase(CurResolvedType)

InLoop == pc = "encoding" /\ argIndex <= Len(instruction.args)

BigIntTypeNames ==
  {<<"u", "6", "4">>, <<"u", "1", "2", "8">>, <<"i", "6", "4">>, <<"i", "1", "2", "8">>}

\* The catch and finally blocks: a message that starts with "[" is a user
\* error.
IsUserError(friendly) == Trim(friendly) # <<>> /\ Head(Trim(friendly)) = "["

\* isSending after the finally block: setIsSending(false)
FinallySkipped(sending) == sending
Finally(sending) == FALSE

\* setRawReturnData(null) and setReturnDataInfo(null); the effect on the return
\* data then sets the same null.
ClearReturnData ==
  /\ rawReturnData' = [def |-> FALSE]
  /\ returnDataInfo' = [def |-> FALSE]
  /\ retPc' = "done"
  /\ UNCHANGED <<returnLayout, retBuffer, retOffset, retIndex, retDecoded>>

Caught(friendly) ==
  /\ pc' = "failed"
  /\ responseStatus' = IF IsUserError(friendly) THEN <<400>> ELSE <<500>>
  /\ responseMessage' = friendly
  /\ txLogs' = <<>>
  /\ ClearReturnData
  /\ isSending' = Finally(isSending)
  /\ UNCHANGED <<instruction, argValues, accountValues, generatedKeypairs, backendWallet>>
  /\ UNCHANGED <<builderVars, walletVars>>

\* A throw of the encoder: error?.message || "Failed to send transaction"
Throw(msg) ==
  /\ Caught(IF msg = <<>> THEN <<"Failed to send transaction">> ELSE msg)
  /\ UNCHANGED <<argsBuffer, offset, argIndex, finalBuffer, request, response>>

\* The end of one pass of the loop over the arguments.
NextArg(buffer, newOffset) ==
  /\ argsBuffer' = buffer
  /\ offset' = newOffset
  /\ argIndex' = argIndex + 1
  /\ UNCHANGED <<instruction, argValues, pc, finalBuffer, isSending,
                 responseStatus, responseMessage>>
  /\ UNCHANGED <<decVars, modalVars, builderVars, walletVars>>

\* The first lines of handleSend, up to the loop.
\* No synchronous code of the modal is running: a click or an answer of the
\* server is handled only then.
Quiet == pc \notin {"encoding", "built"} /\ retPc = "done"

\* !accountValues[acc.name]: the accounts with no value, or with an empty one
MissingAccounts ==
  {k \in 1..Len(instruction.accounts) :
     OrEmpty(ValueOf(accountValues, instruction.accounts[k].name)) = <<>>}

FirstMissing == CHOOSE k \in MissingAccounts : \A j \in MissingAccounts : k <= j

MissingMessage(name) ==
  <<"Error: Missing public key for account '">> \o name \o <<"'">>

\* The first lines of handleSend, up to the loop: with an account that has no
\* value it returns; the Send button is disabled while isSending.
HandleSendStart ==
  /\ ~isSending
  /\ Quiet
  /\ responseStatus' = <<>>
  /\ txLogs' = <<>>
  /\ ClearReturnData
  /\ IF MissingAccounts # {}
     THEN /\ responseMessage' = MissingMessage(instruction.accounts[FirstMissing].name)
          /\ isSending' = FALSE
          /\ pc' = "returned"
          /\ UNCHANGED <<argsBuffer, offset, argIndex>>
     ELSE /\ responseMessage' = <<>>
          /\ isSending' = TRUE
          /\ pc' = "encoding"
          /\ argsBuffer' = BufferCopy(getInstructionDiscriminator(instruction.name),
                                      BufferAlloc(BufferCapacity), 0)
          /\ offset' = DiscriminatorLength
          /\ argIndex' = 1
  /\ UNCHANGED <<instruction, argValues, finalBuffer>>
  /\ UNCHANGED <<accountValues, generatedKeypairs, backendWallet, request, response>>
  /\ UNCHANGED <<builderVars, walletVars>>

\* One pass of the loop ends with the offset advanced, or with the throw.
Step(w) == IF w.ok THEN NextArg(w.buffer, offset + w.written) ELSE Throw(w.msg)

EncodeBigIntArg ==
  /\ InLoop
  /\ CurTypeName \in BigIntTypeNames
  /\ Step(writeBigIntToBuffer(argsBuffer, CurValue, offset, CurTypeName, CurArg.name))

\* The write of a u32/i32, u16/i16 or u8/i8 and the offset advanced.
Written(w, byteLength) ==
  IF w.ok THEN [ok |-> TRUE, buffer |-> w.buffer, written |-> byteLength] ELSE w

\* The u32/i32, u16/i16 and u8/i8 branches after the parse; they differ in
\* the width only.
EncodeParsedNumber(buffer, val, at, bits, typeName, resolvedType, argName) ==
  IF ~val.ok THEN val
  ELSE IF ~ensureNumberRange(val.val, bits, Head(typeName) = "i", argName,
                             resolvedType).ok
  THEN ensureNumberRange(val.val, bits, Head(typeName) = "i", argName, resolvedType)
  ELSE Written(BufferWriteIntLE(buffer, val.val, at, bits \div 8,
                                Head(typeName) # "u"),
               bits \div 8)

encodeNumber(buffer, raw, at, bits, typeName, resolvedType, argName) ==
  EncodeParsedNumber(buffer, parseIntegerInput(raw, argName), at, bits, typeName,
                     resolvedType, argName)

EncodeInt32Arg ==
  /\ InLoop
  /\ CurTypeName \in {<<"u", "3", "2">>, <<"i", "3", "2">>}
  /\ Step(encodeNumber(argsBuffer, CurValue, offset, 32, CurTypeName,
                       CurResolvedType, CurArg.name))

EncodeInt16Arg ==
  /\ InLoop
  /\ CurTypeName \in {<<"u", "1", "6">>, <<"i", "1", "6">>}
  /\ Step(encodeNumber(argsBuffer, CurValue, offset, 16, CurTypeName,
                       CurResolvedType, CurArg.name))

EncodeInt8Arg ==
  /\ InLoop
  /\ CurTypeName \in {<<"u", "8">>, <<"i", "8">>}
  /\ Step(encodeNumber(argsBuffer, CurValue, offset, 8, CurTypeName,
                       CurResolvedType, CurArg.name))

\* strBytes.copy(argsBuffer, offset) after the length was written
CopyText(w, strBytes, at) ==
  IF w.ok
  THEN [ok |-> TRUE,
        buffer |-> BufferCopy(strBytes, w.buffer, at + 4),
        written |-> 4 + Len(strBytes)]
  ELSE w

EncodeBytes(buffer, strBytes, at) ==
  CopyText(BufferWriteIntLE(buffer, Big(FALSE, NatMag(Len(strBytes))), at, 4, FALSE),
           strBytes, at)

\* The string branch, and the last branch, which has the same code: the length
\* as a u32, then the bytes copied.
encodeText(buffer, raw, at) == EncodeBytes(buffer, Utf8(OrEmpty(raw)), at)

EncodeStringArg ==
  /\ InLoop
  /\ CurTypeName = TxtString
  /\ Step(encodeText(argsBuffer, CurValue, offset))

\* The byte of a normalised bool text, 2 when it is none of the five.
BoolByte(normalized) ==
  IF normalized = <<>> \/ normalized = TxtFalse \/ normalized = <<"0">> THEN 0
  ELSE IF normalized = TxtTrue \/ normalized = <<"1">> THEN 1
  ELSE 2

EncodeBoolByte(buffer, bit, at, argName) ==
  IF bit = 2
  THEN [ok |-> FALSE,
        msg |-> <<"[">> \o argName
                \o <<"] Invalid bool value. Use true/false or 1/0.">>]
  ELSE Written(BufferWriteIntLE(buffer, Big(FALSE, NatMag(bit)), at, 1, FALSE), 1)

\* A bool branch that neither trims nor lower-cases: the fault of comparing the
\* text as typed.
encodeBoolAsTyped(buffer, raw, at, argName) ==
  EncodeBoolByte(buffer, BoolByte(OrEmpty(raw)), at, argName)

encodeBool(buffer, raw, at, argName) ==
  EncodeBoolByte(buffer, BoolByte(ToLowerCase(Trim(OrEmpty(raw)))), at, argName)

EncodeBoolArg ==
  /\ InLoop
  /\ CurTypeName = TxtBool
  /\ Step(encodeBool(argsBuffer, CurValue, offset, CurArg.name))

\* Whatever is thrown inside the inner try is thrown again as Invalid PublicKey.
CopyPubkey(buffer, k, at, argName) ==
  IF ~k.ok
  THEN [ok |-> FALSE, msg |-> <<"Invalid PublicKey for ">> \o argName]
  ELSE [ok |-> TRUE,
        buffer |-> BufferCopy(k.bytes, buffer, at),
        written |-> PublicKeyLength]

encodePubkey(buffer, raw, at, argName) ==
  CopyPubkey(buffer, PublicKeyBytes(raw), at, argName)

EncodePubkeyArg ==
  /\ InLoop
  /\ CurTypeName \in {TxtPublickey, TxtPubkey}
  /\ Step(encodePubkey(argsBuffer, CurValue, offset, CurArg.name))

NamedTypeNames ==
  BigIntTypeNames
  \cup {<<"u", "3", "2">>, <<"i", "3", "2">>, <<"u", "1", "6">>, <<"i", "1", "6">>,
        <<"u", "8">>, <<"i", "8">>, TxtString, TxtBool, TxtPublickey, TxtPubkey}

EncodeFallbackArg ==
  /\ InLoop
  /\ CurTypeName \notin NamedTypeNames
  /\ Step(encodeText(argsBuffer, CurValue, offset))

\* After the loop: argsBuffer.slice(0, offset)
HandleSendBuild ==
  /\ pc = "encoding"
  /\ argIndex > Len(instruction.args)
  /\ finalBuffer' = BufferSlice(argsBuffer, 0, offset)
  /\ pc' = "built"
  /\ UNCHANGED <<instruction, argValues, argsBuffer, offset, argIndex, isSending,
                 responseStatus, responseMessage>>
  /\ UNCHANGED <<decVars, modalVars, builderVars, walletVars>>

(***************************************************************************)
(* The return decoder                                                      *)
(***************************************************************************)
\* The natural number of a magnitude that the model checker can hold.
RECURSIVE MagToNat(_)
MagToNat(m) == IF m = <<>> THEN 0 ELSE Head(m) + 256 * MagToNat(Tail(m))

\* A reading that takes 2^(bits - 1) itself for positive: the fault of
\* comparing with > for >=.
SignedOfAbove(mag, byteLength) ==
  IF CmpMag(mag, Pow2(8 * byteLength - 1)) > 0
  THEN Big(TRUE, SubMag(Pow2(8 * byteLength), mag))
  ELSE Big(FALSE, mag)

\* The two's-complement reading of a magnitude over byteLength bytes.
SignedOf(mag, byteLength) ==
  IF CmpMag(mag, Pow2(8 * byteLength - 1)) >= 0
  THEN Big(TRUE, SubMag(Pow2(8 * byteLength), mag))
  ELSE Big(FALSE, mag)

\* A read that leaves the sign step out: the fault of reading a signed kind as
\* unsigned.
readBigIntUnsigned(buffer, at, byteLength, signed) ==
  Big(FALSE, Norm([i \in 1..byteLength |-> buffer[at + i]]))

\* result |= byte << 8i for every byte, then the sign.
readBigIntFromBuffer(buffer, at, byteLength, signed) ==
  IF signed
  THEN SignedOf(Norm([i \in 1..byteLength |-> buffer[at + i]]), byteLength)
  ELSE Big(FALSE, Norm([i \in 1..byteLength |-> buffer[at + i]]))

\* A table with 4 bytes for the 16-bit kinds: the fault of a wrong width.
NumericBytesWide(type) ==
  IF type \in {<<"u", "8">>, <<"i", "8">>} THEN 1
  ELSE IF type \in {<<"u", "1", "6">>, <<"i", "1", "6">>, <<"u", "3", "2">>, <<"i", "3", "2">>}
  THEN 4
  ELSE IF type \in {<<"u", "6", "4">>, <<"i", "6", "4">>} THEN 8
  ELSE IF type \in {<<"u", "1", "2", "8">>, <<"i", "1", "2", "8">>} THEN 16
  ELSE 0

\* numericTypes[type].bytes, 0 for a type that is not numeric
NumericBytes(type) ==
  IF type \in {<<"u", "8">>, <<"i", "8">>} THEN 1
  ELSE IF type \in {<<"u", "1", "6">>, <<"i", "1", "6">>} THEN 2
  ELSE IF type \in {<<"u", "3", "2">>, <<"i", "3", "2">>} THEN 4
  ELSE IF type \in {<<"u", "6", "4">>, <<"i", "6", "4">>} THEN 8
  ELSE IF type \in {<<"u", "1", "2", "8">>, <<"i", "1", "2", "8">>} THEN 16
  ELSE 0

\* The message of the error ensureBytes throws, required as a magnitude.
NeedBytes(required, remaining) ==
  <<"Need ">> \o BigToString(Big(FALSE, required)) \o <<" more bytes, only ">>
  \o BigToString(Big(FALSE, NatMag(remaining))) \o <<" left">>

\* What the catch pushes, and the offset the loop stops at.
Failed(msg, at) ==
  [ok |-> FALSE, value |-> <<"Decode error: ">> \o msg, offset |-> at]

HexDigits ==
  <<"0", "1", "2", "3", "4", "5", "6", "7", "8", "9", "a", "b", "c", "d", "e", "f">>

\* slice.toString("hex")
RECURSIVE ToHex(_)
ToHex(bytes) ==
  IF bytes = <<>> THEN <<>>
  ELSE <<HexDigits[(Head(bytes) \div 16) + 1], HexDigits[(Head(bytes) % 16) + 1]>>
       \o ToHex(Tail(bytes))

\* The character of a code point: the characters of the model by their names,
\* any other by its number.
CodePointChar(cp) ==
  IF cp >= 48 /\ cp <= 57 THEN Digits[cp - 47]
  ELSE IF cp >= 65 /\ cp <= 90 THEN UpperLetters[cp - 64]
  ELSE IF cp >= 97 /\ cp <= 122 THEN LowerLetters[cp - 96]
  ELSE IF IndexOf(AsciiOtherCodes, cp) > 0 THEN AsciiOthers[IndexOf(AsciiOtherCodes, cp)]
  ELSE IF cp = 9 THEN "\t"
  ELSE IF cp = 10 THEN "\n"
  ELSE IF cp = 233 THEN "e'"
  ELSE IF cp = 8364 THEN "EUR"
  ELSE "U+" \o ToString(cp)

IsContinuation(bytes, i) == i <= Len(bytes) /\ bytes[i] >= 128 /\ bytes[i] < 192

\* Length of the well-formed UTF-8 sequence at the head of bytes, 0 when the
\* head starts none (utf8Slice of the buffer package then puts U+FFFD for the
\* first byte alone).
SequenceLength(bytes) ==
  IF bytes[1] < 128 THEN 1
  ELSE IF bytes[1] >= 194 /\ bytes[1] < 224 /\ IsContinuation(bytes, 2) THEN 2
  ELSE IF /\ bytes[1] >= 224 /\ bytes[1] < 240
          /\ IsContinuation(bytes, 2) /\ IsContinuation(bytes, 3)
          /\ (bytes[1] - 224) * 4096 + (bytes[2] - 128) * 64 >= 2048
          /\ ~((bytes[1] - 224) * 4096 + (bytes[2] - 128) * 64 >= 55296
               /\ (bytes[1] - 224) * 4096 + (bytes[2] - 128) * 64 < 57344)
       THEN 3
  ELSE IF /\ bytes[1] >= 240 /\ bytes[1] < 248
          /\ IsContinuation(bytes, 2) /\ IsContinuation(bytes, 3)
          /\ IsContinuation(bytes, 4)
          /\ (bytes[1] - 240) * 262144 + (bytes[2] - 128) * 4096 >= 65536
          /\ (bytes[1] - 240) * 262144 + (bytes[2] - 128) * 4096 < 1114112
       THEN 4
  ELSE 0

CodePointOf(bytes, n) ==
  CASE n = 1 -> bytes[1]
    [] n = 2 -> (bytes[1] - 192) * 64 + (bytes[2] - 128)
    [] n = 3 -> (bytes[1] - 224) * 4096 + (bytes[2] - 128) * 64 + (bytes[3] - 128)
    [] n = 4 -> (bytes[1] - 240) * 262144 + (bytes[2] - 128) * 4096
                + (bytes[3] - 128) * 64 + (bytes[4] - 128)

\* slice.toString("utf8")
RECURSIVE Utf8Decode(_)
Utf8Decode(bytes) ==
  IF bytes = <<>> THEN <<>>
  ELSE IF SequenceLength(bytes) = 0 THEN <<"U+FFFD">> \o Utf8Decode(Tail(bytes))
  ELSE <<CodePointChar(CodePointOf(bytes, SequenceLength(bytes)))>>
       \o Utf8Decode(SubSeq(bytes, SequenceLength(bytes) + 1, Len(bytes)))

RECURSIVE LeadingZeros(_)
LeadingZeros(bytes) ==
  IF bytes # <<>> /\ Head(bytes) = 0 THEN 1 + LeadingZeros(Tail(bytes)) ELSE 0

RECURSIVE Base58Digits(_)
Base58Digits(m) ==
  IF m = <<>> THEN <<>>
  ELSE Base58Digits(Norm(QuotHigh(m, 58, 0))) \o <<Base58Alphabet[RemHigh(m, 58, 0) + 1]>>

\* The base-58 digits alone: the fault of leaving the leading zero bytes out.
toBase58Digits(bytes) == Base58Digits(Norm(Reverse(bytes)))

\* new PublicKey(bytes).toBase58(): a "1" for each leading zero byte, then the
\* base-58 digits of the number the bytes write big-endian.
toBase58(bytes) ==
  [i \in 1..LeadingZeros(bytes) |-> "1"] \o Base58Digits(Norm(Reverse(bytes)))

\* A string and bytes branch that does not look whether length bytes are
\* left: the fault of leaving the second ensureBytes out.
DecodeFramedUnchecked(buffer, at, type, length) ==
  [ok |-> TRUE,
   value |-> IF type = TxtString
             THEN Utf8Decode(BufferSlice(buffer, at + 4, Len(buffer)))
             ELSE ToHex(BufferSlice(buffer, at + 4, Len(buffer))),
   offset |-> Len(buffer)]

\* The string and bytes branch once the 4 bytes of the length are there:
\* length is the magnitude readUInt32LE gives.
DecodeFramed(buffer, at, type, length) ==
  IF CmpMag(NatMag(Len(buffer) - (at + 4)), length) < 0
  THEN Failed(NeedBytes(length, Len(buffer) - (at + 4)), at + 4)
  ELSE [ok |-> TRUE,
        value |-> IF type = TxtString
                  THEN Utf8Decode(SubSeq(buffer, at + 5, at + 4 + MagToNat(length)))
                  ELSE ToHex(SubSeq(buffer, at + 5, at + 4 + MagToNat(length))),
        offset |-> at + 4 + MagToNat(length)]

TxtBytes == <<"b", "y", "t", "e", "s">>

\* The body of the loop of decodeWithLayout for one field: the value and the
\* offset after it, or the message of what was thrown.
DecodeField(buffer, at, type) ==
  IF NumericBytes(type) # 0
  THEN IF Len(buffer) - at < NumericBytes(type)
       THEN Failed(NeedBytes(NatMag(NumericBytes(type)), Len(buffer) - at), at)
       ELSE [ok |-> TRUE,
             value |-> BigToString(readBigIntFromBuffer(buffer, at, NumericBytes(type),
                                                        Head(type) = "i")),
             offset |-> at + NumericBytes(type)]
  ELSE IF type = TxtBool
  THEN IF Len(buffer) - at < 1
       THEN Failed(NeedBytes(<<1>>, Len(buffer) - at), at)
       ELSE [ok |-> TRUE,
             value |-> IF buffer[at + 1] = 1 THEN TxtTrue ELSE TxtFalse,
             offset |-> at + 1]
  ELSE IF type = TxtPubkey
  THEN IF Len(buffer) - at < PublicKeyLength
       THEN Failed(NeedBytes(NatMag(PublicKeyLength), Len(buffer) - at), at)
       ELSE [ok |-> TRUE,
             value |-> toBase58(SubSeq(buffer, at + 1, at + PublicKeyLength)),
             offset |-> at + PublicKeyLength]
  ELSE IF type = TxtString \/ type = TxtBytes
  THEN IF Len(buffer) - at < 4
       THEN Failed(NeedBytes(<<4>>, Len(buffer) - at), at)
       ELSE DecodeFramed(buffer, at, type, Norm(SubSeq(buffer, at + 1, at + 4)))
  ELSE Failed(<<"Unsupported field type '">> \o type \o <<"'">>, at)

\* A name that counts the entries from 0: the fault of leaving the + 1 out.
FieldNameFromZero(name, count) ==
  IF Trim(name) = <<>> THEN <<"field_">> \o BigToString(Big(FALSE, NatMag(count)))
  ELSE Trim(name)

\* field.name?.trim() || `field_${decoded.length + 1}`
FieldName(name, count) ==
  IF Trim(name) = <<>> THEN <<"field_">> \o BigToString(Big(FALSE, NatMag(count + 1)))
  ELSE Trim(name)

Entry(field, count, value) ==
  [name |-> FieldName(field.name, count), type |-> field.type, value |-> value]

RECURSIVE DecodeFrom(_, _, _, _, _)

\* One pass of the loop: the entry pushed, then the next field or the break.
DecodeNext(buffer, layout, i, decoded, r) ==
  IF r.ok
  THEN DecodeFrom(buffer, layout, i + 1, r.offset,
                  Append(decoded, Entry(layout[i], Len(decoded), r.value)))
  ELSE Append(decoded, Entry(layout[i], Len(decoded), r.value))

DecodeFrom(buffer, layout, i, at, decoded) ==
  IF i > Len(layout) THEN decoded
  ELSE DecodeNext(buffer, layout, i, decoded, DecodeField(buffer, at, layout[i].type))

decodeWithLayout(buffer, layout) == DecodeFrom(buffer, layout, 1, 0, <<>>)

(***************************************************************************)
(* formatReturnData, and decodeWithLayout step by step                     *)
(***************************************************************************)
Base64Alphabet == UpperLetters \o LowerLetters \o Digits \o <<"+", "/">>

\* The six bits of a character; "-" and "_" count as "+" and "/".
Base64Value(c) ==
  IF c = "-" THEN 62 ELSE IF c = "_" THEN 63 ELSE IndexOf(Base64Alphabet, c) - 1

\* The text up to its first "=".
RECURSIVE BeforePadding(_)
BeforePadding(t) ==
  IF t = <<>> \/ Head(t) = "=" THEN <<>> ELSE <<Head(t)>> \o BeforePadding(Tail(t))

\* base64clean: the padding cut, the text trimmed, every character that is no
\* base-64 character dropped; nothing is left of fewer than 2 characters.
Base64Clean(t) ==
  SelectSeq(Trim(BeforePadding(t)),
            LAMBDA c : c \in {"-", "_"} \/ IndexOf(Base64Alphabet, c) > 0)

\* The bytes of a sequence of six-bit values: 3 bytes of every 4 values, 1 byte
\* of 2 values left and 2 bytes of 3.
RECURSIVE Base64Bytes(_)
Base64Bytes(v) ==
  IF Len(v) < 2 THEN <<>>
  ELSE IF Len(v) = 2 THEN <<v[1] * 4 + v[2] \div 16>>
  ELSE IF Len(v) = 3
  THEN <<v[1] * 4 + v[2] \div 16, (v[2] % 16) * 16 + v[3] \div 4>>
  ELSE <<v[1] * 4 + v[2] \div 16, (v[2] % 16) * 16 + v[3] \div 4,
         (v[3] % 4) * 64 + v[4]>>
       \o Base64Bytes(SubSeq(v, 5, Len(v)))

SixBits(t) == [i \in 1..Len(t) |-> Base64Value(t[i])]

\* Buffer.from(payload, "base64")
Base64Decode(payload) == Base64Bytes(SixBits(Base64Clean(payload)))

\* The base-64 text the server sends for bytes.
RECURSIVE Base64Encode(_)
Base64Encode(bytes) ==
  IF bytes = <<>> THEN <<>>
  ELSE IF Len(bytes) = 1
  THEN <<Base64Alphabet[bytes[1] \div 4 + 1], Base64Alphabet[(bytes[1] % 4) * 16 + 1],
         "=", "=">>
  ELSE IF Len(bytes) = 2
  THEN <<Base64Alphabet[bytes[1] \div 4 + 1],
         Base64Alphabet[(bytes[1] % 4) * 16 + bytes[2] \div 16 + 1],
         Base64Alphabet[(bytes[2] % 16) * 4 + 1], "=">>
  ELSE <<Base64Alphabet[bytes[1] \div 4 + 1],
         Base64Alphabet[(bytes[1] % 4) * 16 + bytes[2] \div 16 + 1],
         Base64Alphabet[(bytes[2] % 16) * 4 + bytes[3] \div 64 + 1],
         Base64Alphabet[(bytes[3] % 64) + 1]>>
       \o Base64Encode(SubSeq(bytes, 4, Len(bytes)))

Null == [def |-> FALSE]
Absent == [def |-> FALSE, val |-> <<>>]
Present(v) == [def |-> TRUE, val |-> v]

\* baseInfo
BaseInfo(raw, hex) ==
  [def |-> TRUE, programId |-> raw.programId, base64 |-> raw.data[1], hex |-> hex,
   encoding |-> raw.data[2], decoded |-> Absent, fields |-> Absent]

\* buffer.readBigUInt64LE(0).toString()
ReadBigUInt64LE(buffer) == BigToString(Big(FALSE, Norm(SubSeq(buffer, 1, 8))))

\* A return that reads a u64 off every payload of 8 bytes or more: the fault of
\* comparing the length with >= for ===.
RawInfoOfLonger(raw, buffer) ==
  IF Len(buffer) >= 8
  THEN [BaseInfo(raw, ToHex(buffer)) EXCEPT !.decoded = Present(ReadBigUInt64LE(buffer))]
  ELSE BaseInfo(raw, ToHex(buffer))

\* The return of formatReturnData for an empty layout.
RawInfo(raw, buffer) ==
  IF Len(buffer) = 8
  THEN [BaseInfo(raw, ToHex(buffer)) EXCEPT !.decoded = Present(ReadBigUInt64LE(buffer))]
  ELSE BaseInfo(raw, ToHex(buffer))

HasPayload == rawReturnData.def /\ rawReturnData.data # <<>>

\* formatReturnData of nothing: null.
FormatReturnNull ==
  /\ retPc = "ready"
  /\ ~HasPayload
  /\ returnDataInfo' = Null
  /\ retPc' = "done"
  /\ UNCHANGED <<rawReturnData, returnLayout, retBuffer, retOffset, retIndex, retDecoded>>
  /\ UNCHANGED <<encVars, modalVars, builderVars, walletVars>>

\* formatReturnData with an empty layout.
FormatReturnRaw ==
  /\ retPc = "ready"
  /\ HasPayload
  /\ returnLayout = <<>>
  /\ retBuffer' = Base64Decode(rawReturnData.data[1])
  /\ returnDataInfo' = RawInfo(rawReturnData, Base64Decode(rawReturnData.data[1]))
  /\ retPc' = "done"
  /\ UNCHANGED <<rawReturnData, returnLayout, retOffset, retIndex, retDecoded>>
  /\ UNCHANGED <<encVars, modalVars, builderVars, walletVars>>

\* formatReturnData with a layout, up to the loop of decodeWithLayout.
\* The cursor decodeWithLayout starts at: let offset = 0, whatever an earlier
\* call left.
StartCursorKept(previous) == previous
StartCursor(previous) == 0

DecodeWithLayoutStart ==
  /\ retPc = "ready"
  /\ HasPayload
  /\ returnLayout # <<>>
  /\ retBuffer' = Base64Decode(rawReturnData.data[1])
  /\ retOffset' = StartCursor(retOffset)
  /\ retIndex' = 1
  /\ retDecoded' = <<>>
  /\ retPc' = "decoding"
  /\ UNCHANGED <<rawReturnData, returnLayout, returnDataInfo>>
  /\ UNCHANGED <<encVars, modalVars, builderVars, walletVars>>

InDecodeLoop == retPc = "decoding" /\ retIndex <= Len(returnLayout)

CurField == returnLayout[retIndex]

\* A pass that goes on to the next field after a throw: the fault of leaving
\* the break out.
DecodeStepOn(r) ==
  /\ retDecoded' = Append(retDecoded, Entry(CurField, Len(retDecoded), r.value))
  /\ retOffset' = r.offset
  /\ retIndex' = retIndex + 1
  /\ retPc' = "decoding"
  /\ UNCHANGED <<rawReturnData, returnLayout, returnDataInfo, retBuffer>>
  /\ UNCHANGED <<encVars, modalVars, builderVars, walletVars>>

\* One pass of the loop of decodeWithLayout: the entry pushed and the offset
\* moved, then the next field or, after a throw, the break.
DecodeStep(r) ==
  /\ retDecoded' = Append(retDecoded, Entry(CurField, Len(retDecoded), r.value))
  /\ retOffset' = r.offset
  /\ retIndex' = IF r.ok THEN retIndex + 1 ELSE retIndex
  /\ retPc' = IF r.ok THEN "decoding" ELSE "broken"
  /\ UNCHANGED <<rawReturnData, returnLayout, returnDataInfo, retBuffer>>
  /\ UNCHANGED <<encVars, modalVars, builderVars, walletVars>>

DecodeNumericField ==
  /\ InDecodeLoop
  /\ NumericBytes(CurField.type) # 0
  /\ DecodeStep(DecodeField(retBuffer, retOffset, CurField.type))

DecodeBoolField ==
  /\ InDecodeLoop
  /\ CurField.type = TxtBool
  /\ DecodeStep(DecodeField(retBuffer, retOffset, CurField.type))

DecodePubkeyField ==
  /\ InDecodeLoop
  /\ CurField.type = TxtPubkey
  /\ DecodeStep(DecodeField(retBuffer, retOffset, CurField.type))

DecodeFramedField ==
  /\ InDecodeLoop
  /\ CurField.type \in {TxtString, TxtBytes}
  /\ DecodeStep(DecodeField(retBuffer, retOffset, CurField.type))

\* After the loop or the break: decoded is returned as the fields.
FormatReturnFields ==
  /\ \/ retPc = "decoding" /\ retIndex > Len(returnLayout)
     \/ retPc = "broken"
  /\ returnDataInfo' = [BaseInfo(rawReturnData, ToHex(retBuffer))
                          EXCEPT !.fields = Present(retDecoded)]
  /\ retPc' = "done"
  /\ UNCHANGED <<rawReturnData, returnLayout, retBuffer, retOffset, retIndex, retDecoded>>
  /\ UNCHANGED <<encVars, modalVars, builderVars, walletVars>>

(***************************************************************************)
(* The inputs: a method and a value map                                    *)
(***************************************************************************)
\* The longest run of arguments put before the argument under study.
MaxPrefix == 1

NameType(t) == [tag |-> "name", name |-> t]
Given(t) == [def |-> TRUE, text |-> t]
Missing == [def |-> FALSE, text |-> <<>>]
Input(type, value) == [type |-> type, value |-> value]

Widths == {8, 16, 32, 64, 128}

IntTypeName(bits, signed) == (IF signed THEN <<"i">> ELSE <<"u">>) \o DecimalDigits(NatMag(bits))

\* The integers tried: 0, 1, -1 and, for every width, both bounds of the signed
\* and of the unsigned kind and the integers one past them.
SampleInts ==
  {Zero, Big(FALSE, <<1>>), Big(TRUE, <<1>>)}
  \cup UNION {{MinOf(b, TRUE), BigPred(MinOf(b, TRUE)),
               MaxOf(b, TRUE), BigSucc(MaxOf(b, TRUE)),
               MaxOf(b, FALSE), BigSucc(MaxOf(b, FALSE))} : b \in Widths}

\* Texts that are not plain decimal integers.
OddTexts ==
  {<<"1", "e", "3">>, <<"1", ".", "0">>, <<"1", ".", "5">>, <<"0", "x", "1", "0">>,
   <<"a", "b", "c">>, <<" ", "1", "2", " ">>, <<>>, <<" ", " ">>, <<"+", "5">>,
   <<"-">>, <<"0", "0", "7">>, <<"-", "0">>}

IntTexts == {BigToString(v) : v \in SampleInts} \cup OddTexts

\* The widths 8, 16 and 32 go through Number(): their texts are kept to those
\* on which a double is exact.
IntValuesFor(bits) ==
  {Missing}
  \cup {Given(t) : t \in {x \in IntTexts : bits > 32 \/ InDoubleDomain(x)}}

IntInputs ==
  UNION {{Input(NameType(IntTypeName(b, sg)), v) : sg \in BOOLEAN, v \in IntValuesFor(b)} :
           b \in Widths}

BoolInputs ==
  {Input(NameType(TxtBool), v) :
     v \in {Missing} \cup
           {Given(t) : t \in {TxtTrue, TxtFalse, <<"1">>, <<"0">>, <<>>, <<" ">>,
                              <<" ", "T", "R", "U", "E", " ">>,
                              <<"F", "a", "l", "s", "e">>,
                              <<"y", "e", "s">>, <<"2">>, <<"t", "r", "u", "e", "!">>}}}

TxtHello == <<"H", "e", "l", "l", "o">>

StringInputs ==
  {Input(NameType(TxtString), v) :
     v \in {Missing} \cup {Given(t) : t \in {TxtHello, <<>>, <<"e'", "EUR">>, <<" ", "x", " ">>}}}

\* 32 zero bytes, the last byte 1, and the SPL token program.
TxtZeroKey == [i \in 1..32 |-> "1"]
TxtOneKey == [i \in 1..32 |-> IF i = 32 THEN "2" ELSE "1"]
TxtTokenProgram ==
  <<"T", "o", "k", "e", "n", "k", "e", "g", "Q", "f", "e", "Z", "y", "i", "N",
    "w", "A", "J", "b", "N", "b", "G", "K", "P", "F", "X", "C", "W", "u", "B",
    "v", "f", "9", "S", "s", "6", "2", "3", "V", "Q", "5", "D", "A">>

PubkeyInputs ==
  {Input(NameType(n), v) :
     n \in {TxtPubkey, <<"p", "u", "b", "l", "i", "c", "K", "e", "y">>},
     v \in {Missing} \cup
           {Given(t) : t \in {TxtZeroKey, TxtOneKey, TxtTokenProgram, <<>>,
                              <<"0">>, <<"a", "b", "c">>, Tail(TxtZeroKey)}}}

\* Shaped types, unknown names and names in another case.
OtherInputs ==
  {Input([tag |-> "vec"], Given(<<"[", "]">>)),
   Input([tag |-> "array"], Given(<<"1">>)),
   Input([tag |-> "array"], Missing),
   Input([tag |-> "defined", name |-> <<"M", "y", "S", "t", "r", "u", "c", "t">>], Given(TxtHello)),
   Input([tag |-> "defined", name |-> <<"u", "8">>], Given(<<"7">>)),
   Input([tag |-> "defined", name |-> <<>>], Given(TxtHello)),
   Input([tag |-> "other"], Given(TxtHello)),
   Input(NameType(<<"b", "y", "t", "e", "s">>), Given(<<"0", "1">>)),
   Input(NameType(<<"f", "3", "2">>), Given(<<"1", ".", "5">>)),
   Input(NameType(<<"U", "6", "4">>), Given(<<"-", "1">>)),
   Input(NameType(<<"U", "8">>), Given(<<"2", "5", "6">>)),
   Input(NameType(<<"I", "1", "6">>), Given(<<"-", "1">>)),
   Input(NameType(<<"S", "t", "r", "i", "n", "g">>), Given(TxtHello)),
   Input(NameType(<<"B", "o", "o", "l">>), Given(TxtTrue)),
   Input([tag |-> "option", of |-> NameType(<<"u", "8">>)], Given(<<"2", "5", "5">>)),
   Input([tag |-> "option", of |-> NameType(TxtString)], Given(TxtHello)),
   Input([tag |-> "coption", of |-> [tag |-> "option", of |-> NameType(<<"i", "6", "4">>)]],
         Given(<<"-", "1">>)),
   Input([tag |-> "option", of |-> [tag |-> "vec"]], Given(TxtHello))}

Inputs == IntInputs \cup BoolInputs \cup StringInputs \cup PubkeyInputs \cup OtherInputs

\* A string of n bytes, which puts the next argument at offset 12 + n.
FillInput(n) == Input(NameType(TxtString), Given([i \in 1..n |-> "a"]))

\* Short arguments that come first.
ShortFillers ==
  {Input(NameType(<<"u", "8">>), Given(<<"7">>)),
   Input(NameType(TxtString), Given(TxtHello)),
   Input(NameType(<<"i", "6", "4">>), Given(<<"-", "2">>))}

\* Strings that leave 32, 31, 16, 15, 9, 8, 7, 4, 3, 2, 1 and 0 bytes of the
\* buffer free, and strings that run past its end by 1 and by 88 bytes.
LongFillers ==
  {FillInput(BufferCapacity - 12 - free) :
     free \in {32, 31, 16, 15, 9, 8, 7, 4, 3, 2, 1, 0}}
  \cup {FillInput(BufferCapacity - 11), FillInput(BufferCapacity + 76)}

\* Arguments that come after a filler: one or two of every kind.
Probes ==
  {Input(NameType(<<"u", "8">>), Given(<<"2", "5", "5">>)),
   Input(NameType(<<"i", "8">>), Given(<<"-", "1">>)),
   Input(NameType(<<"u", "1", "6">>), Given(<<"2", "5", "6">>)),
   Input(NameType(<<"i", "1", "6">>), Given(<<"-", "1">>)),
   Input(NameType(<<"u", "3", "2">>), Given(<<"1", "0">>)),
   Input(NameType(<<"i", "3", "2">>), Given(<<"-", "2">>)),
   Input(NameType(<<"u", "6", "4">>), Given(<<"2", "5", "8">>)),
   Input(NameType(<<"i", "6", "4">>), Given(<<"-", "1">>)),
   Input(NameType(<<"u", "1", "2", "8">>), Given(<<"1">>)),
   Input(NameType(<<"i", "1", "2", "8">>), Given(<<"-", "1">>)),
   Input(NameType(TxtBool), Given(TxtTrue)),
   Input(NameType(TxtBool), Given(<<"0">>)),
   Input(NameType(TxtString), Given(TxtHello)),
   Input(NameType(TxtString), Given(<<>>)),
   Input(NameType(TxtPubkey), Given(TxtOneKey)),
   Input([tag |-> "vec"], Given(<<"[", "]">>)),
   Input(NameType(<<"u", "8">>), Given(<<"2", "5", "6">>))}

\* What comes before the argument under study: up to MaxPrefix arguments, the
\* last of them short or long, the others short.
Prefixes ==
  UNION {{p \o <<f>> : p \in [1..(n - 1) -> ShortFillers],
                       f \in ShortFillers \cup LongFillers} : n \in 1..MaxPrefix}

InputSeqs ==
  {<<>>} \cup {<<c>> : c \in Inputs \cup LongFillers}
  \cup {p \o <<c>> : p \in Prefixes, c \in Probes}

\* The methods; setAuthority is tried with one argument at most.
MethodNames == {TxtInitialize, TxtSetAuthority}

\* Methods tried with no argument: a name that starts with an upper-case
\* letter and one that starts with an underscore.
BareMethodNames == {TxtInit, TxtUnderInit}

\* The i-th argument is named q<i>.
ArgNameAt(i) == <<"q">> \o DecimalDigits(NatMag(i))

ArgsOf(cs) == [i \in 1..Len(cs) |-> [name |-> ArgNameAt(i), type |-> cs[i].type]]

ValuesOf(cs) ==
  [n \in {ArgNameAt(i) : i \in {j \in 1..Len(cs) : cs[j].value.def}} |->
     cs[CHOOSE i \in 1..Len(cs) : ArgNameAt(i) = n].value.text]

(***************************************************************************)
(* The inputs of the decoder: return data and a layout                     *)
(***************************************************************************)
\* The longest layout tried.
MaxFields == 2

Repeat(n, b) == [i \in 1..n |-> b]

\* For every width the bytes of -1, 0, the minimum and the maximum of the
\* signed kind.
IntPayloads ==
  UNION {{Repeat(b \div 8, 255), Repeat(b \div 8, 0),
          Repeat(b \div 8 - 1, 0) \o <<128>>,
          Repeat(b \div 8 - 1, 255) \o <<127>>} : b \in Widths}

\* The length of the content in 4 bytes, then the content.
Framed(content) == LittleEndian(Big(FALSE, NatMag(Len(content))), 4) \o content

FramedPayloads ==
  {Framed(Utf8(TxtHello)), Framed(<<>>), Framed(Utf8(<<"e'", "EUR">>)),
   Framed(<<255, 0, 171>>), Framed(Utf8(<<"H", "i">>)) \o <<1>>,
   <<5, 0, 0, 0>> \o Utf8(<<"H", "e", "l">>), <<255, 255, 255, 255, 1>>, <<5, 0, 0>>}

KeyPayloads ==
  {Repeat(32, 0), Repeat(31, 0) \o <<1>>, PublicKeyBytes(Given(TxtTokenProgram)).bytes,
   Repeat(32, 255), Repeat(31, 0), Repeat(32, 0) \o <<1>>}

Payloads ==
  {<<>>, <<1>>, <<2>>, <<10, 0, 0>>, <<10, 0, 0, 0, 1>>, <<10, 0, 0, 0, 2>>,
   <<1, 0, 0, 0, 0, 0, 0, 0>>, <<7, 255, 255, 1>>}
  \cup IntPayloads \cup FramedPayloads \cup KeyPayloads

\* json.return_data || null: nothing, no data, or a payload in base 64.
RawInputs ==
  {Null, [def |-> TRUE, programId |-> TxtZeroKey, data |-> <<>>]}
  \cup {[def |-> TRUE, programId |-> TxtZeroKey,
         data |-> <<Base64Encode(p), <<"base64">>>>] : p \in Payloads}

\* RETURN_FIELD_TYPE_OPTIONS
FieldTypes ==
  {IntTypeName(b, sg) : b \in Widths, sg \in BOOLEAN}
  \cup {TxtBool, TxtString, TxtBytes, TxtPubkey}

Field(name, type) == [name |-> name, type |-> type]

TxtAmount == <<"a", "m", "o", "u", "n", "t">>
TxtActive == <<"a", "c", "t", "i", "v", "e">>

\* The first field is named amount, the second active, the others have no
\* name.
FieldNameAt(i) == IF i = 1 THEN TxtAmount ELSE IF i = 2 THEN TxtActive ELSE <<>>

SingleLayouts ==
  {<<Field(TxtAmount, t)>> : t \in FieldTypes}
  \cup {<<Field(<<>>, <<"u", "6", "4">>)>>, <<Field(<<" ", "x", " ">>, TxtBool)>>}

\* The types of the fields of the layouts of more than one field.
FieldTypeSample ==
  {<<"u", "8">>, <<"i", "1", "6">>, <<"u", "3", "2">>, TxtBool, TxtString, TxtPubkey}

LongLayouts ==
  UNION {{[i \in 1..n |-> Field(FieldNameAt(i), ts[i])] : ts \in [1..n -> FieldTypeSample]} :
           n \in 2..MaxFields}

\* Layouts with fields that have no name, or a name of spaces.
BlankLayouts ==
  {<<Field(<<>>, <<"u", "8">>), Field(<<" ">>, TxtBool)>>,
   <<Field(TxtAmount, <<"u", "8">>), Field(<<>>, <<"u", "8">>)>>,
   <<Field(<<" ", " ">>, TxtString), Field(<<" ", "x", " ">>, <<"u", "8">>)>>}

Layouts == {<<>>} \cup SingleLayouts \cup LongLayouts \cup BlankLayouts

\* The state of the two other components while the modal is studied.
BuilderIdle ==
  /\ fields = <<>>
  /\ bufferHex = <<>>
  /\ isPacking = FALSE
  /\ error = <<>>
  /\ packTimer = <<>>
  /\ packRequests = <<>>
  /\ txStatus = <<>>
  /\ submitted = [def |-> FALSE]

WalletIdle ==
  /\ wallet = [def |-> FALSE]
  /\ connected = FALSE
  /\ connecting = FALSE
  /\ isMounted = FALSE
  /\ isConnectingRef = FALSE
  /\ timers = <<>>
  /\ connects = <<>>
  /\ disconnecting = FALSE

Init ==
  /\ \E name \in MethodNames \cup BareMethodNames, cs \in InputSeqs :
       /\ \/ name = TxtInitialize
          \/ name = TxtSetAuthority /\ Len(cs) <= 1
          \/ cs = <<>>
       /\ instruction = [name |-> name, args |-> ArgsOf(cs), accounts |-> <<>>]
       /\ argValues = ValuesOf(cs)
  /\ pc = "idle"
  /\ argsBuffer = <<>>
  /\ offset = 0
  /\ argIndex = 0
  /\ finalBuffer = <<>>
  /\ isSending = FALSE
  /\ responseStatus = <<>>
  /\ responseMessage = <<>>
  /\ rawReturnData = [def |-> FALSE]
  /\ returnLayout = <<>>
  /\ returnDataInfo = [def |-> FALSE]
  /\ retPc = "done"
  /\ retBuffer = <<>>
  /\ retOffset = 0
  /\ retIndex = 0
  /\ retDecoded = <<>>
  /\ accountValues = <<>>
  /\ generatedKeypairs = <<>>
  /\ backendWallet = <<>>
  /\ txLogs = <<>>
  /\ request = [def |-> FALSE]
  /\ response = [def |-> FALSE]
  /\ BuilderIdle
  /\ WalletIdle

Next ==
  \/ HandleSendStart
  \/ EncodeBigIntArg
  \/ EncodeInt32Arg
  \/ EncodeInt16Arg
  \/ EncodeInt8Arg
  \/ EncodeStringArg
  \/ EncodeBoolArg
  \/ EncodePubkeyArg
  \/ EncodeFallbackArg
  \/ HandleSendBuild

Spec == Init /\ [][Next]_vars

\* The modal with return data just set: the effect runs formatReturnData.
DecodeInit ==
  /\ rawReturnData \in RawInputs
  /\ returnLayout \in Layouts
  /\ returnDataInfo = Null
  /\ retPc = "ready"
  /\ retBuffer = <<>>
  /\ retOffset = 0
  /\ retIndex = 0
  /\ retDecoded = <<>>
  /\ instruction = [name |-> TxtInitialize, args |-> <<>>, accounts |-> <<>>]
  /\ argValues = ValuesOf(<<>>)
  /\ pc = "idle"
  /\ argsBuffer = <<>>
  /\ offset = 0
  /\ argIndex = 0
  /\ finalBuffer = <<>>
  /\ isSending = FALSE
  /\ responseStatus = <<>>
  /\ responseMessage = <<>>
  /\ accountValues = <<>>
  /\ generatedKeypairs = <<>>
  /\ backendWallet = <<>>
  /\ txLogs = <<>>
  /\ request = [def |-> FALSE]
  /\ response = [def |-> FALSE]
  /\ BuilderIdle
  /\ WalletIdle

DecodeSpecNext ==
  \/ FormatReturnNull
  \/ FormatReturnRaw
  \/ DecodeWithLayoutStart
  \/ DecodeNumericField
  \/ DecodeBoolField
  \/ DecodePubkeyField
  \/ DecodeFramedField
  \/ FormatReturnFields

DecodeSpec == DecodeInit /\ [][DecodeSpecNext]_vars

(***************************************************************************)
(* ExecutorModal: the accounts, the request of handleSend and its answer   *)
(***************************************************************************)
\* { ...prev, [name]: value }
Put(map, name, value) ==
  [n \in DOMAIN map \cup {name} |-> IF n = name THEN value ELSE map[n]]

Account(name, isMut, isSigner) == [name |-> name, isMut |-> isMut, isSigner |-> isSigner]

TxtAuthority == <<"a", "u", "t", "h", "o", "r", "i", "t", "y">>
TxtPayer == <<"p", "a", "y", "e", "r">>
TxtSigner == <<"s", "i", "g", "n", "e", "r">>
TxtData == <<"d", "a", "t", "a">>
TxtSystemProgram == <<"s", "y", "s", "t", "e", "m", "P", "r", "o", "g", "r", "a", "m">>
SYSTEM_PROGRAM_ID == TxtZeroKey

IsSystemProgram(acc) ==
  ToLowerCase(acc.name) \in {ToLowerCase(TxtSystemProgram),
                             <<"s", "y", "s", "t", "e", "m", "_", "p", "r", "o", "g", "r", "a", "m">>}

shouldAutoGenerateAccount(acc) == acc.isMut /\ ~acc.isSigner

AccountNamed(name) ==
  instruction.accounts[CHOOSE k \in 1..Len(instruction.accounts) :
                         instruction.accounts[k].name = name]

AccountNames == {instruction.accounts[k].name : k \in 1..Len(instruction.accounts)}

\* generated?.pubkey || accountValues[acc.name] || ""
PayloadPubkey(name) ==
  IF name \in DOMAIN generatedKeypairs /\ generatedKeypairs[name] # <<>>
  THEN generatedKeypairs[name]
  ELSE OrEmpty(ValueOf(accountValues, name))

PayloadAccount(acc) ==
  [pubkey |-> PayloadPubkey(acc.name),
   is_signer |-> acc.isSigner \/ acc.name \in DOMAIN generatedKeypairs,
   is_writable |-> acc.isMut]

\* a || b: the first when it is not empty
Or(a, b) == IF a # <<>> THEN a ELSE b

feePayerValue ==
  Or(OrEmpty(ValueOf(accountValues, TxtAuthority)),
     Or(OrEmpty(ValueOf(accountValues, TxtPayer)),
        Or(OrEmpty(ValueOf(accountValues, TxtSigner)), backendWallet)))

\* The body of the request; additional_signers holds the names of the
\* generated keypairs, and is undefined when there is none.
Payload ==
  [def |-> TRUE,
   accounts |-> [k \in 1..Len(instruction.accounts) |-> PayloadAccount(instruction.accounts[k])],
   instruction_data |-> Base64Encode(finalBuffer),
   sign_with_backend |-> TRUE,
   fee_payer |-> feePayerValue,
   additional_signers |-> DOMAIN generatedKeypairs]

\* From finalBuffer to the fetch: handleSend waits for the answer.
HandleSendRequest ==
  /\ pc = "built"
  /\ request' = Payload
  /\ pc' = "fetching"
  /\ UNCHANGED <<instruction, argValues, argsBuffer, offset, argIndex, finalBuffer,
                 isSending, responseStatus, responseMessage>>
  /\ UNCHANGED <<accountValues, generatedKeypairs, backendWallet, txLogs, response>>
  /\ UNCHANGED <<decVars, builderVars, walletVars>>

\* What the server may answer: a status, and a body that is JSON or not.  The
\* bodies tried carry no logs when the status is an error.
Answer(status, parses, signature, logs, returnData, detail) ==
  [def |-> TRUE, status |-> status, ok |-> status >= 200 /\ status <= 299,
   parses |-> parses, signature |-> signature, logs |-> logs,
   return_data |-> returnData, detail |-> detail]

TxtSignature == <<"5", "V", "E", "R", "v">>
TxtProgramLog == <<"Program log: Instruction: Initialize">>
TxtServerDetail == <<"Simulation failed">>

ReturnedData == [def |-> TRUE, programId |-> TxtZeroKey,
                 data |-> <<Base64Encode(<<10, 0, 0, 0, 1>>), <<"base64">>>>]

Answers ==
  {Answer(200, TRUE, TxtSignature, <<TxtProgramLog>>, ReturnedData, <<>>),
   Answer(400, TRUE, <<>>, <<>>, Null, TxtServerDetail),
   Answer(502, FALSE, <<>>, <<>>, Null, <<>>)}

\* handleSend returns after the request: its buffer and cursor are gone, and
\* no request is in flight.
Returns ==
  /\ argsBuffer' = <<>>
  /\ offset' = 0
  /\ argIndex' = 0
  /\ finalBuffer' = <<>>
  /\ request' = Null
  /\ response' = Null

\* The fetch rejects: the catch block.
FetchRejects ==
  /\ pc = "fetching"
  /\ Quiet
  /\ Caught(<<"Failed to fetch">>)
  /\ Returns

\* The fetch resolves: setResponseStatus(res.status), then res.json().
FetchResolves ==
  /\ pc = "fetching"
  /\ Quiet
  /\ \E res \in Answers : response' = res /\ responseStatus' = <<res.status>>
  /\ pc' = "parsing"
  /\ UNCHANGED <<instruction, argValues, argsBuffer, offset, argIndex, finalBuffer,
                 isSending, responseMessage>>
  /\ UNCHANGED <<accountValues, generatedKeypairs, backendWallet, txLogs, request>>
  /\ UNCHANGED <<decVars, builderVars, walletVars>>

\* res.json() rejects: the catch block.
JsonRejects ==
  /\ pc = "parsing"
  /\ Quiet
  /\ ~response.parses
  /\ Caught(<<"Unexpected token < in JSON at position 0">>)
  /\ Returns

\* `Request failed (${res.status})`
RequestFailed(status) == <<"Request failed (">> \o DecimalDigits(NatMag(status)) \o <<")">>

\* deriveFriendlyError(baseMessage, []): with no logs
deriveFriendlyError(baseMessage) ==
  (IF Trim(baseMessage) # <<>> THEN Trim(baseMessage)
   ELSE <<"Transaction failed during contract execution.">>)
  \o <<" Check the logs or try again.">>

\* setRawReturnData(json.return_data || null): the effect on the return data
\* runs formatReturnData when the data changed.
SetRawReturnData(data) ==
  /\ rawReturnData' = data
  /\ retPc' = IF data = rawReturnData THEN retPc ELSE "ready"
  /\ UNCHANGED <<returnLayout, returnDataInfo, retBuffer, retOffset, retIndex, retDecoded>>

\* res.json() resolves: the two branches on res.ok, then the finally block.
JsonResolves ==
  /\ pc = "parsing"
  /\ Quiet
  /\ response.parses
  /\ IF response.ok
     THEN /\ responseMessage' = Or(response.signature, <<"Transaction sent successfully!">>)
          /\ txLogs' = response.logs
     ELSE /\ responseMessage' =
               deriveFriendlyError(Or(response.detail, RequestFailed(response.status)))
          /\ txLogs' = <<>>
  /\ SetRawReturnData(response.return_data)
  /\ isSending' = Finally(isSending)
  /\ pc' = "sent"
  /\ Returns
  /\ UNCHANGED <<instruction, argValues, responseStatus>>
  /\ UNCHANGED <<accountValues, generatedKeypairs, backendWallet>>
  /\ UNCHANGED <<builderVars, walletVars>>

\* Keypair.generate().publicKey.toBase58(): one of two keys.
GeneratedKeys == {TxtOneKey, TxtTokenProgram}
TxtBackendWallet == [i \in 1..32 |-> IF i = 32 THEN "3" ELSE "1"]
TxtTyped == <<"a", "b", "c">>

\* What leaves the codec's state, the return data and the other components
\* alone: a click on the accounts or on the arguments.
OnlyInputsChange ==
  /\ UNCHANGED <<instruction, pc, argsBuffer, offset, argIndex, finalBuffer,
                 isSending, responseStatus, responseMessage>>
  /\ UNCHANGED <<backendWallet, txLogs, request, response>>
  /\ UNCHANGED <<decVars, builderVars, walletVars>>

\* The Generate button of an account.
handleGenerateAccount ==
  /\ Quiet
  /\ \E name \in AccountNames, pubkey \in GeneratedKeys :
       /\ ~IsSystemProgram(AccountNamed(name))
       /\ IF name \in DOMAIN generatedKeypairs /\ generatedKeypairs[name] = pubkey
          THEN UNCHANGED <<accountValues, generatedKeypairs>>
          ELSE /\ accountValues' = Put(accountValues, name, pubkey)
               /\ generatedKeypairs' = Put(generatedKeypairs, name, pubkey)
  /\ UNCHANGED argValues
  /\ OnlyInputsChange

\* The Backend button of a signer account.
UseBackendWallet ==
  /\ Quiet
  /\ backendWallet # <<>>
  /\ \E name \in AccountNames :
       /\ AccountNamed(name).isSigner
       /\ ~IsSystemProgram(AccountNamed(name))
       /\ accountValues' = Put(accountValues, name, backendWallet)
  /\ UNCHANGED <<argValues, generatedKeypairs>>
  /\ OnlyInputsChange

\* Typing into the input of an account.
EditAccount ==
  /\ Quiet
  /\ \E name \in AccountNames, text \in {<<>>, TxtTyped} :
       /\ ~IsSystemProgram(AccountNamed(name))
       /\ accountValues' = Put(accountValues, name, text)
  /\ UNCHANGED <<argValues, generatedKeypairs>>
  /\ OnlyInputsChange

\* The texts typed into the input of an argument of a type.
ArgTexts(type) ==
  IF type = NameType(<<"u", "8">>) THEN {<<"7">>, <<"2", "5", "6">>, <<"x">>}
  ELSE IF type = NameType(TxtBool) THEN {TxtTrue, <<"m", "a", "y", "b", "e">>}
  ELSE {TxtOneKey, TxtTyped}

\* Typing into the input of an argument.
EditArg ==
  /\ Quiet
  /\ \E k \in 1..Len(instruction.args) :
       \E text \in ArgTexts(instruction.args[k].type) :
         argValues' = Put(argValues, instruction.args[k].name, text)
  /\ UNCHANGED <<accountValues, generatedKeypairs>>
  /\ OnlyInputsChange

\* setReturnLayout: the effect on the layout runs formatReturnData.
SetReturnLayout(layout) ==
  /\ returnLayout' = layout
  /\ retPc' = "ready"
  /\ UNCHANGED <<rawReturnData, returnDataInfo, retBuffer, retOffset, retIndex, retDecoded>>
  /\ UNCHANGED <<encVars, modalVars, builderVars, walletVars>>

\* The layouts the modal is studied with: none, and one field that was added
\* and given the type u8.
ModalLayouts == {<<>>, <<Field(<<"field_", "1">>, <<"u", "8">>)>>}

handleClearReturnLayout ==
  /\ Quiet
  /\ returnLayout # <<>>
  /\ SetReturnLayout(<<>>)

\* The methods the modal is opened on: accounts of every kind, and one
\* argument of each kind of failure.
ModalInstructions ==
  {[name |-> TxtInitialize, args |-> <<>>,
    accounts |-> <<Account(TxtAuthority, TRUE, TRUE), Account(TxtSystemProgram, FALSE, FALSE)>>],
   [name |-> TxtSetAuthority, args |-> <<>>, accounts |-> <<Account(TxtData, TRUE, FALSE)>>],
   [name |-> TxtSetAuthority, args |-> <<[name |-> ArgNameAt(1), type |-> NameType(<<"u", "8">>)]>>,
    accounts |-> <<>>],
   [name |-> TxtInitialize, args |-> <<[name |-> ArgNameAt(1), type |-> NameType(TxtBool)]>>,
    accounts |-> <<>>],
   [name |-> TxtInitialize, args |-> <<[name |-> ArgNameAt(1), type |-> NameType(TxtPubkey)]>>,
    accounts |-> <<>>]}

\* The effects on the instruction, run when the modal opens: a keypair for
\* every account that is writable and no signer, a key for every argument that
\* is a public key, the system program's id, and the backend's wallet when the
\* server gave it.
AutoGenerated(ins) ==
  {k \in 1..Len(ins.accounts) : shouldAutoGenerateAccount(ins.accounts[k])}

PrefilledArgs(ins) ==
  {k \in 1..Len(ins.args) :
     ToLowerCase(resolveArgType(ins.args[k].type)) \in {TxtPubkey, TxtPublickey}}

SystemPrograms(ins) == {k \in 1..Len(ins.accounts) : IsSystemProgram(ins.accounts[k])}

ModalInit ==
  /\ instruction \in ModalInstructions
  /\ \E pubkey \in GeneratedKeys :
       /\ generatedKeypairs =
            [n \in {instruction.accounts[k].name : k \in AutoGenerated(instruction)} |-> pubkey]
       /\ accountValues =
            [n \in {instruction.accounts[k].name :
                      k \in AutoGenerated(instruction) \cup SystemPrograms(instruction)} |->
               IF IsSystemProgram(AccountNamed(n)) THEN SYSTEM_PROGRAM_ID ELSE pubkey]
       /\ argValues =
            [n \in {instruction.args[k].name : k \in PrefilledArgs(instruction)} |-> pubkey]
  /\ pc = "idle"
  /\ argsBuffer = <<>>
  /\ offset = 0
  /\ argIndex = 0
  /\ finalBuffer = <<>>
  /\ isSending = FALSE
  /\ responseStatus = <<>>
  /\ responseMessage = <<>>
  /\ rawReturnData = Null
  /\ returnLayout \in ModalLayouts
  /\ returnDataInfo = Null
  /\ retPc = "done"
  /\ retBuffer = <<>>
  /\ retOffset = 0
  /\ retIndex = 0
  /\ retDecoded = <<>>
  /\ backendWallet \in {<<>>, TxtBackendWallet}
  /\ txLogs = <<>>
  /\ request = Null
  /\ response = Null
  /\ BuilderIdle
  /\ WalletIdle

ModalNext ==
  \/ HandleSendStart
  \/ EncodeInt8Arg
  \/ EncodeBoolArg
  \/ EncodePubkeyArg
  \/ HandleSendBuild
  \/ HandleSendRequest
  \/ FetchRejects
  \/ FetchResolves
  \/ JsonRejects
  \/ JsonResolves
  \/ handleGenerateAccount
  \/ UseBackendWallet
  \/ EditAccount
  \/ EditArg
  \/ handleClearReturnLayout
  \/ FormatReturnNull
  \/ FormatReturnRaw
  \/ DecodeWithLayoutStart
  \/ DecodeNumericField
  \/ FormatReturnFields

ModalSpec == ModalInit /\ [][ModalNext]_vars

\* Where handleSend can be.
Positions == {"idle", "encoding", "built", "fetching", "parsing", "returned", "failed", "sent"}

\* The synchronous code of handleSend moves on: to the next argument, to the
\* request or to the catch block.
RunsOn ==
  /\ pc \in {"encoding", "built"}
  /\ pc' \in Positions
  /\ argIndex' \in {argIndex, argIndex + 1}
  /\ <<pc', argIndex'>> # <<pc, argIndex>>

\* The promise handleSend waits for settles, and its continuation runs.
Answered ==
  /\ pc \in {"fetching", "parsing"}
  /\ Quiet
  /\ pc' \in Positions
  /\ pc' # pc

\* The effect on the return data moves on: formatReturnData to its end.
FormatRunsOn ==
  /\ retPc # "done"
  /\ retPc' \in {"decoding", "broken", "done"}
  /\ retIndex' \in {retIndex, retIndex + 1, 1}
  /\ <<retPc', retIndex'>> # <<retPc, retIndex>>

\* Synchronous code runs to its end, and the event loop does not leave a
\* settled promise waiting for ever, whatever else the user does meanwhile.
ModalFairness ==
  /\ WF_<<pc, argIndex>>(RunsOn)
  /\ WF_<<retPc, retIndex>>(FormatRunsOn)
  /\ SF_pc(Answered)

FairModalSpec == ModalSpec /\ ModalFairness

(***************************************************************************)
(* InstructionBuilder: the field list, its packing and the transaction     *)
(***************************************************************************)
\* The longest field list, and the most pack requests in flight.
MaxBuilderFields == 2
MaxPackRequests == 2

BuilderField(type, value) == [type |-> type, value |-> value]

\* f.value.trim() !== "" for every field
validFields(list) == \A k \in 1..Len(list) : Trim(list[k].value) # <<>>

\* The entry of the request's layout for a field: the value of an unsigned
\* integer of up to 64 bits is Number(f.value), and 0 when that is NaN.
PackedEntry(f) ==
  IF f.type \in {<<"u", "8">>, <<"u", "1", "6">>, <<"u", "3", "2">>, <<"u", "6", "4">>}
  THEN [type |-> f.type,
        value |-> IF StringToNumber(f.value).kind = "int"
                  THEN BigToString(StringToNumber(f.value).val)
                  ELSE <<"0">>]
  ELSE [type |-> f.type, value |-> f.value]

PackPayload(list) == [k \in 1..Len(list) |-> PackedEntry(list[k])]

\* data.buffer_hex of the pack endpoint: the server's code is not part of this
\* study, its answer is kept as the layout it packed.
ServerPack(layout) == <<"buffer_hex of">> \o layout

\* The packing of a field list.
PackingOf(list) == ServerPack(PackPayload(list))

\* The effect on the fields: the timer of the effect before is cleared, and a
\* timer of 500 ms is set that holds the fields of this render.
Debounce(pending, list) == <<list>>

\* setFields: the new list, and the effect on it.
SetFields(list) ==
  /\ fields' = list
  /\ packTimer' = Debounce(packTimer, list)
  /\ UNCHANGED <<bufferHex, isPacking, error, packRequests, txStatus, submitted>>
  /\ UNCHANGED <<encVars, decVars, modalVars, walletVars>>

addField ==
  /\ Len(fields) < MaxBuilderFields
  /\ SetFields(Append(fields, BuilderField(<<"u", "8">>, <<>>)))

removeField ==
  \E k \in 1..Len(fields) :
    SetFields(SubSeq(fields, 1, k - 1) \o SubSeq(fields, k + 1, Len(fields)))

\* The texts typed into the value of a field.
BuilderTexts == {<<>>, <<"2">>}

\* updateField(id, "value", text)
updateField ==
  \E k \in 1..Len(fields), text \in BuilderTexts :
    SetFields([fields EXCEPT ![k].value = text])

\* The timer fires: packInstruction of the render that set it, up to the
\* fetch, when that render had a field.
PackTimerFires ==
  /\ packTimer # <<>>
  /\ packTimer' = Tail(packTimer)
  /\ IF Head(packTimer) # <<>> /\ validFields(Head(packTimer))
     THEN /\ Len(packRequests) < MaxPackRequests
          /\ isPacking' = TRUE
          /\ error' = <<>>
          /\ packRequests' = Append(packRequests, PackPayload(Head(packTimer)))
     ELSE UNCHANGED <<isPacking, error, packRequests>>
  /\ UNCHANGED <<fields, bufferHex, txStatus, submitted>>
  /\ UNCHANGED <<encVars, decVars, modalVars, walletVars>>

Without(seq, k) == SubSeq(seq, 1, k - 1) \o SubSeq(seq, k + 1, Len(seq))

\* A pack request is answered, in any order: setBufferHex(data.buffer_hex),
\* then the finally block.
PackResolves ==
  /\ \E k \in 1..Len(packRequests) :
       /\ bufferHex' = ServerPack(packRequests[k])
       /\ packRequests' = Without(packRequests, k)
  /\ isPacking' = FALSE
  /\ UNCHANGED <<fields, error, packTimer, txStatus, submitted>>
  /\ UNCHANGED <<encVars, decVars, modalVars, walletVars>>

\* A pack request fails, or its answer is not ok: the catch block, then the
\* finally block.
PackRejects ==
  /\ \E k \in 1..Len(packRequests) : packRequests' = Without(packRequests, k)
  /\ error' = <<"Failed to pack instruction">>
  /\ isPacking' = FALSE
  /\ UNCHANGED <<fields, bufferHex, packTimer, txStatus, submitted>>
  /\ UNCHANGED <<encVars, decVars, modalVars, walletVars>>

\* The button of executeTransaction is enabled with a wallet connected, a
\* bufferHex and no transaction being sent; programId and the first account's
\* key are there or not.  What it posts is kept in submitted until the
\* transaction is through.
executeTransaction ==
  /\ bufferHex # <<>>
  /\ ~submitted.def
  /\ \E programId \in BOOLEAN, pubkey \in BOOLEAN :
       IF ~programId
       THEN /\ txStatus' = <<"error", "Program ID is required">>
            /\ UNCHANGED submitted
       ELSE IF ~pubkey
       THEN /\ txStatus' = <<"error", "At least one account is required">>
            /\ UNCHANGED submitted
       ELSE /\ txStatus' = <<"idle", "">>
            /\ submitted' = [def |-> TRUE, instruction_data |-> bufferHex]
  /\ UNCHANGED <<fields, bufferHex, isPacking, error, packTimer, packRequests>>
  /\ UNCHANGED <<encVars, decVars, modalVars, walletVars>>

\* The transaction is built, signed, sent and confirmed, or one of these
\* fails.
TransactionSettles ==
  /\ submitted.def
  /\ submitted' = Null
  /\ \E status \in {<<"success", "Transaction successful!">>,
                    <<"error", "Transaction failed">>} : txStatus' = status
  /\ UNCHANGED <<fields, bufferHex, isPacking, error, packTimer, packRequests>>
  /\ UNCHANGED <<encVars, decVars, modalVars, walletVars>>

\* The two fields of a first visit; the effect has set its timer.
BuilderInit ==
  /\ fields = <<BuilderField(<<"u", "8">>, <<"1">>), BuilderField(TxtString, TxtHello)>>
  /\ bufferHex = <<>>
  /\ isPacking = FALSE
  /\ error = <<>>
  /\ packTimer = <<fields>>
  /\ packRequests = <<>>
  /\ txStatus = <<"idle", "">>
  /\ submitted = Null
  /\ instruction = [name |-> TxtInitialize, args |-> <<>>, accounts |-> <<>>]
  /\ argValues = <<>>
  /\ pc = "idle"
  /\ argsBuffer = <<>>
  /\ offset = 0
  /\ argIndex = 0
  /\ finalBuffer = <<>>
  /\ isSending = FALSE
  /\ responseStatus = <<>>
  /\ responseMessage = <<>>
  /\ rawReturnData = Null
  /\ returnLayout = <<>>
  /\ returnDataInfo = Null
  /\ retPc = "done"
  /\ retBuffer = <<>>
  /\ retOffset = 0
  /\ retIndex = 0
  /\ retDecoded = <<>>
  /\ accountValues = <<>>
  /\ generatedKeypairs = <<>>
  /\ backendWallet = <<>>
  /\ txLogs = <<>>
  /\ request = Null
  /\ response = Null
  /\ WalletIdle

BuilderNext ==
  \/ addField
  \/ removeField
  \/ updateField
  \/ PackTimerFires
  \/ PackResolves
  \/ PackRejects
  \/ executeTransaction
  \/ TransactionSettles

BuilderSpec == BuilderInit /\ [][BuilderNext]_vars

(***************************************************************************)
(* WalletContextProvider: the wallet selected and the connection to it     *)
(***************************************************************************)
WalletNames == {"Phantom", "Solflare"}
ReadyStates == {"Installed", "Loadable", "NotDetected", "Unsupported"}

Wallet(name, readyState) == [def |-> TRUE, name |-> name, readyState |-> readyState]

\* The condition of the connection effect on a render.
MayConnect(w, isConnected, isConnecting, mounted) ==
  w.def /\ ~isConnected /\ ~isConnecting /\ mounted

\* select(null) of the connection effect, for a wallet that is not installed;
\* the effect of the render that follows finds no wallet.
WalletAfterEffect(w, isConnected, isConnecting, mounted) ==
  IF MayConnect(w, isConnected, isConnecting, mounted)
     /\ w.readyState \in {"NotDetected", "Unsupported"}
  THEN Null
  ELSE w

\* The cleanup of the effect before: clearTimeout(timer).
ClearTimerSkipped(pending) == pending
ClearTimer(pending) == <<>>

\* The timers after the connection effect ran again: the one of the effect
\* before is cleared, and one is set for a wallet that is ready unless a
\* connect() is outstanding.
TimersAfterEffect(pending, w, isConnected, isConnecting, mounted, ref) ==
  IF MayConnect(w, isConnected, isConnecting, mounted)
     /\ w.readyState \in {"Installed", "Loadable"}
     /\ ~ref
  THEN Append(ClearTimer(pending), w.name)
  ELSE ClearTimer(pending)

\* A render with new values of what the connection effect depends on, and the
\* effect on it.
Render(w, isConnected, isConnecting) ==
  /\ wallet' = WalletAfterEffect(w, isConnected, isConnecting, isMounted)
  /\ connected' = isConnected
  /\ connecting' = isConnecting
  /\ timers' = TimersAfterEffect(timers, w, isConnected, isConnecting, isMounted,
                                 isConnectingRef)
  /\ UNCHANGED <<isMounted, isConnectingRef, connects>>
  /\ UNCHANGED <<encVars, decVars, modalVars, builderVars>>

\* The two effects of the first render: a wallet kept from an earlier visit
\* is cleared, and the connection effect runs on the render that follows.
Mount ==
  /\ ~isMounted
  /\ isMounted' = TRUE
  /\ wallet' = IF ~connected /\ wallet.def THEN Null ELSE wallet
  /\ timers' = TimersAfterEffect(timers, wallet', connected, connecting, TRUE,
                                 isConnectingRef)
  /\ UNCHANGED <<connected, connecting, isConnectingRef, connects, disconnecting>>
  /\ UNCHANGED <<encVars, decVars, modalVars, builderVars>>

\* The user picks a wallet in the modal.
SelectWallet ==
  /\ isMounted
  /\ \E name \in WalletNames, readyState \in ReadyStates :
       Render(Wallet(name, readyState), connected, connecting)
  /\ UNCHANGED disconnecting

\* The adapter of the wallet selected reports another ready state.
ReadyStateChanges ==
  /\ isMounted
  /\ wallet.def
  /\ \E readyState \in ReadyStates \ {wallet.readyState} :
       Render([wallet EXCEPT !.readyState = readyState], connected, connecting)
  /\ UNCHANGED disconnecting

\* The wallet adapter reports that it is connected, or that it is not.
ConnectedChanges ==
  /\ isMounted
  /\ Render(wallet, ~connected, connecting)
  /\ UNCHANGED disconnecting

\* The wallet adapter reports that it is connecting, or that it is not.
ConnectingChanges ==
  /\ isMounted
  /\ Render(wallet, connected, ~connecting)
  /\ UNCHANGED disconnecting

\* The effect runs again with nothing but connect or select changed.
EffectRunsAgain ==
  /\ isMounted
  /\ Render(wallet, connected, connecting)
  /\ UNCHANGED disconnecting

\* The timer fires: connect() is called.
ConnectTimerFires ==
  /\ timers # <<>>
  /\ timers' = Tail(timers)
  /\ isConnectingRef' = TRUE
  /\ connects' = Append(connects, Head(timers))
  /\ UNCHANGED <<wallet, connected, connecting, isMounted, disconnecting>>
  /\ UNCHANGED <<encVars, decVars, modalVars, builderVars>>

\* A connect() settles: the finally block.
ConnectSettles ==
  /\ connects # <<>>
  /\ connects' = Tail(connects)
  /\ isConnectingRef' = FALSE
  /\ UNCHANGED <<wallet, connected, connecting, isMounted, timers, disconnecting>>
  /\ UNCHANGED <<encVars, decVars, modalVars, builderVars>>

\* disconnectWallet up to the await of disconnect().
disconnectWallet ==
  /\ isMounted
  /\ ~disconnecting
  /\ disconnecting' = TRUE
  /\ UNCHANGED <<wallet, connected, connecting, isMounted, isConnectingRef, timers, connects>>
  /\ UNCHANGED <<encVars, decVars, modalVars, builderVars>>

\* disconnect() resolves: select(null).
DisconnectResolves ==
  /\ disconnecting
  /\ disconnecting' = FALSE
  /\ Render(Null, connected, connecting)

\* disconnect() rejects: the catch block.
DisconnectRejects ==
  /\ disconnecting
  /\ disconnecting' = FALSE
  /\ UNCHANGED <<wallet, connected, connecting, isMounted, isConnectingRef, timers, connects>>
  /\ UNCHANGED <<encVars, decVars, modalVars, builderVars>>

\* Before the first effects: no wallet, or one kept from an earlier visit.
WalletInit ==
  /\ wallet \in {Null} \cup {Wallet(name, readyState) :
                               name \in WalletNames, readyState \in ReadyStates}
  /\ connected = FALSE
  /\ connecting = FALSE
  /\ isMounted = FALSE
  /\ isConnectingRef = FALSE
  /\ timers = <<>>
  /\ connects = <<>>
  /\ disconnecting = FALSE
  /\ BuilderIdle
  /\ instruction = [name |-> TxtInitialize, args |-> <<>>, accounts |-> <<>>]
  /\ argValues = <<>>
  /\ pc = "idle"
  /\ argsBuffer = <<>>
  /\ offset = 0
  /\ argIndex = 0
  /\ finalBuffer = <<>>
  /\ isSending = FALSE
  /\ responseStatus = <<>>
  /\ responseMessage = <<>>
  /\ rawReturnData = Null
  /\ returnLayout = <<>>
  /\ returnDataInfo = Null
  /\ retPc = "done"
  /\ retBuffer = <<>>
  /\ retOffset = 0
  /\ retIndex = 0
  /\ retDecoded = <<>>
  /\ accountValues = <<>>
  /\ generatedKeypairs = <<>>
  /\ backendWallet = <<>>
  /\ txLogs = <<>>
  /\ request = Null
  /\ response = Null

WalletNext ==
  \/ Mount
  \/ SelectWallet
  \/ ReadyStateChanges
  \/ ConnectedChanges
  \/ ConnectingChanges
  \/ EffectRunsAgain
  \/ ConnectTimerFires
  \/ ConnectSettles
  \/ disconnectWallet
  \/ DisconnectResolves
  \/ DisconnectRejects

WalletSpec == WalletInit /\ [][WalletNext]_vars

(***************************************************************************)
(* What the properties are stated with                                     *)
(***************************************************************************)
Finished == pc \in {"built", "failed"}

IntKinds == {IntTypeName(b, sg) : b \in Widths, sg \in BOOLEAN}

\* The width of an integer kind.
BitsOf == [k \in IntKinds |-> CHOOSE b \in Widths : k \in {IntTypeName(b, TRUE), IntTypeName(b, FALSE)}]

\* The decimal texts of the integers tried, and the integer of each.
SampleTexts == {BigToString(v) : v \in SampleInts}
IntOfText == [t \in SampleTexts |-> CHOOSE v \in SampleInts : BigToString(v) = t]

InRange(v, kind) ==
  /\ ~BigLess(v, MinOf(BitsOf[kind], Head(kind) = "i"))
  /\ ~BigLess(MaxOf(BitsOf[kind], Head(kind) = "i"), v)

\* The decimal texts of the integers tried that lie in the range of a kind.
RangeTexts == [k \in IntKinds |-> {t \in SampleTexts : InRange(IntOfText[t], k)}]

\* The method has one argument, of an integer kind.
SingleIntArg ==
  /\ Len(instruction.args) = 1
  /\ instruction.args[1].type.tag = "name"
  /\ instruction.args[1].type.name \in IntKinds

TheArg == instruction.args[1]
TheValue == ValueOf(argValues, TheArg.name)

\* The payload after the discriminator.
Body == SubSeq(finalBuffer, DiscriminatorLength + 1, Len(finalBuffer))

\* The loop is at an argument of an integer kind whose value is the decimal
\* text of one of the integers tried.
AtSampleInt ==
  /\ InLoop
  /\ CurArg.type.tag = "name"
  /\ CurArg.type.name \in IntKinds
  /\ CurValue.def
  /\ CurValue.text \in SampleTexts

HasPart(msg, part) == \E i \in 1..Len(msg) : msg[i] = part

\* t occurs in msg
Contains(msg, t) ==
  \E i \in 0..(Len(msg) - Len(t)) : SubSeq(msg, i + 1, i + Len(t)) = t

\* The messages of ensureBigIntRange and ensureNumberRange.
IsRangeError(msg) ==
  \/ HasPart(msg, " is out of range for ")
  \/ HasPart(msg, " must be greater than or equal to 0")

\* The messages of parseBigIntInput and parseIntegerInput.
IsParseError(msg) ==
  \/ HasPart(msg, "] Invalid integer value: ")
  \/ HasPart(msg, "] Value must be a finite number")
  \/ HasPart(msg, "] Value must be an integer")

\* bytes are in buffer from offset at on
Holds(buffer, at, bytes) ==
  /\ at + Len(bytes) <= Len(buffer)
  /\ SubSeq(buffer, at + 1, at + Len(bytes)) = bytes

\* The step of the loop wrote bytes at the offset and advanced the offset past
\* them.
Wrote(bytes) ==
  /\ pc' = "encoding"
  /\ offset' = offset + Len(bytes)
  /\ Holds(argsBuffer', offset, bytes)

\* The step failed, the buffer having no room for n more bytes.
FailedForRoom(n) == offset + n > BufferCapacity /\ pc' = "failed"

\* v over bits bits: v itself, or v + 2^bits for a negative v.
Wrapped(v, bits) == IF v.neg THEN SubMag(Pow2(bits), v.mag) ELSE v.mag

\* bytes are the little-endian two's complement of v over bits bits
IsTwosComplementLE(bytes, v, bits) ==
  Len(bytes) = bits \div 8 /\ Norm(bytes) = Wrapped(v, bits)

\* What one pass of the loop does for an argument at an offset of a buffer.
PassAt(buffer, at, arg, raw, typeName) ==
  IF typeName \in BigIntTypeNames
  THEN writeBigIntToBuffer(buffer, raw, at, typeName, arg.name)
  ELSE IF typeName \in {<<"u", "3", "2">>, <<"i", "3", "2">>}
  THEN encodeNumber(buffer, raw, at, 32, typeName, resolveArgType(arg.type), arg.name)
  ELSE IF typeName \in {<<"u", "1", "6">>, <<"i", "1", "6">>}
  THEN encodeNumber(buffer, raw, at, 16, typeName, resolveArgType(arg.type), arg.name)
  ELSE IF typeName \in {<<"u", "8">>, <<"i", "8">>}
  THEN encodeNumber(buffer, raw, at, 8, typeName, resolveArgType(arg.type), arg.name)
  ELSE IF typeName = TxtBool THEN encodeBool(buffer, raw, at, arg.name)
  ELSE IF typeName \in {TxtPublickey, TxtPubkey} THEN encodePubkey(buffer, raw, at, arg.name)
  ELSE encodeText(buffer, raw, at)

\* What one pass of the loop does for an argument at offset 0 of a buffer.
PassAlone(buffer, arg, raw, typeName) == PassAt(buffer, 0, arg, raw, typeName)

WrittenBytes(w) == SubSeq(w.buffer, 1, w.written)

\* The encoding of an argument: what its pass writes into a buffer that has
\* room for it.
EncodingOf(arg, raw) ==
  WrittenBytes(PassAlone(BufferAlloc(BufferCapacity + BufferCapacity + BufferCapacity),
                         arg, raw, ToLowerCase(resolveArgType(arg.type))))

\* The encodings of the arguments from the i-th on, one after the other.
RECURSIVE EncodingsFrom(_)
EncodingsFrom(i) ==
  IF i > Len(instruction.args) THEN <<>>
  ELSE EncodingOf(instruction.args[i], ValueOf(argValues, instruction.args[i].name))
       \o EncodingsFrom(i + 1)

(***************************************************************************)
(* The properties                                                          *)
(***************************************************************************)
\* C1: a method with one argument of an integer kind, whose value is the
\* decimal text of an integer in the range of the kind, is encoded, and
\* decoding the payload after the discriminator with one field of that kind
\* gives that decimal text back.
IntRoundTrip ==
  (Finished /\ SingleIntArg /\ TheValue.def
     /\ TheValue.text \in RangeTexts[TheArg.type.name])
  => /\ pc = "built"
     /\ decodeWithLayout(Body, <<[name |-> TheArg.name, type |-> TheArg.type.name]>>)
        = <<[name |-> TheArg.name, type |-> TheArg.type.name, value |-> TheValue.text]>>

\* The minimum of i128 went through encode: its text is what decode gives.
IntRoundTripWitness ==
  /\ pc = "built"
  /\ SingleIntArg
  /\ TheArg.type.name = <<"i", "1", "2", "8">>
  /\ TheValue.def
  /\ TheValue.text = BigToString(MinOf(128, TRUE))
  /\ Len(Body) = 16
  /\ Body[16] = 128

\* C2: the payload of an encode that succeeds is the 8 bytes of the
\* discriminator, then the encodings of the arguments in the order the method
\* declares them, and nothing more; its length is 8 plus the lengths of the
\* encodings.
PayloadIsConcatenation ==
  pc = "built"
  => /\ finalBuffer = getInstructionDiscriminator(instruction.name) \o EncodingsFrom(1)
     /\ Len(finalBuffer) = DiscriminatorLength + Len(EncodingsFrom(1))

\* C3: the encode does not go on, and returns nothing, once the write offset is
\* past the capacity of the buffer: it has failed at the argument that took it
\* there.
OverflowFails == pc \in {"encoding", "built"} => offset <= BufferCapacity

\* C4: the payload of an encode that does not fail is at most as long as the
\* capacity of the buffer.
PayloadWithinCapacity == pc = "built" => Len(finalBuffer) <= BufferCapacity

\* An encode whose offset went past the capacity did not fail: its payload is
\* as long as the buffer.
PayloadWithinCapacityWitness ==
  pc = "built" /\ offset > BufferCapacity /\ Len(finalBuffer) = BufferCapacity

\* C5: at an argument of an integer kind, an integer in the range of the kind
\* is accepted, unless the buffer has no room for its bytes and the encode
\* fails; an integer outside the range makes the encode fail with the message
\* of a range error.
RangeDecidesStep ==
  AtSampleInt
  => IF InRange(IntOfText[CurValue.text], CurArg.type.name)
     THEN \/ pc' = "encoding"
          \/ FailedForRoom(BitsOf[CurArg.type.name] \div 8)
             /\ ~IsRangeError(responseMessage')
     ELSE pc' = "failed" /\ IsRangeError(responseMessage')

RangeDecides == [][RangeDecidesStep]_vars

\* u8 "256" has failed with a range error.
RangeDecidesWitness ==
  /\ pc = "failed"
  /\ SingleIntArg
  /\ TheArg.type.name = <<"u", "8">>
  /\ TheValue = Given(<<"2", "5", "6">>)
  /\ IsRangeError(responseMessage)

\* C6: the message of a range error names the argument, the value that is out
\* of range and the type.
RangeErrorNamesAll ==
  (pc = "failed" /\ IsRangeError(responseMessage) /\ CurArg.type.tag = "name"
     /\ CurArg.type.name \in IntKinds /\ CurValue.def /\ CurValue.text \in SampleTexts)
  => /\ Contains(responseMessage, CurArg.name)
     /\ Contains(responseMessage, CurValue.text)
     /\ Contains(responseMessage, CurArg.type.name)

\* C7: at an argument of an integer kind of b bits, an integer in the range
\* of the kind is written as b/8 bytes, the little-endian two's complement of
\* the integer, unless the buffer has no room for them and the encode fails.
IntBytesStep ==
  (AtSampleInt /\ InRange(IntOfText[CurValue.text], CurArg.type.name))
  => \/ /\ pc' = "encoding"
        /\ offset' = offset + BitsOf[CurArg.type.name] \div 8
        /\ offset' <= Len(argsBuffer')
        /\ IsTwosComplementLE(SubSeq(argsBuffer', offset + 1, offset'),
                              IntOfText[CurValue.text], BitsOf[CurArg.type.name])
     \/ FailedForRoom(BitsOf[CurArg.type.name] \div 8)

IntBytes == [][IntBytesStep]_vars

\* C8: with one argument of an integer kind, a missing value is encoded as 0,
\* and a text is refused as no integer literal by a kind of 8, 16 or 32 bits
\* exactly when a kind of 64 or 128 bits refuses it.
SameLiterals ==
  (Finished /\ SingleIntArg)
  => IF TheValue.def
     THEN (pc = "failed" /\ IsParseError(responseMessage))
          <=> ~parseBigIntInput(TheValue, TheArg.name).ok
     ELSE pc = "built" /\ Body = [i \in 1..(BitsOf[TheArg.type.name] \div 8) |-> 0]

\* C9: at a bool argument the text is trimmed and lower-cased; nothing,
\* "false" and "0" are written as the byte 0, "true" and "1" as the byte 1,
\* unless the buffer has no room for the byte and the encode fails; any other
\* text makes the encode fail with the message of an invalid bool.
BoolStep ==
  (InLoop /\ CurTypeName = TxtBool)
  => IF ToLowerCase(Trim(OrEmpty(CurValue))) \in {<<>>, TxtFalse, <<"0">>}
     THEN Wrote(<<0>>) \/ FailedForRoom(1)
     ELSE IF ToLowerCase(Trim(OrEmpty(CurValue))) \in {TxtTrue, <<"1">>}
     THEN Wrote(<<1>>) \/ FailedForRoom(1)
     ELSE /\ pc' = "failed"
          /\ responseMessage' = <<"[">> \o CurArg.name
                                \o <<"] Invalid bool value. Use true/false or 1/0.">>

BoolEncoding == [][BoolStep]_vars

\* " TRUE " was encoded as the one byte 1.
BoolEncodingWitness ==
  /\ pc = "built"
  /\ Len(instruction.args) = 1
  /\ TheArg.type = NameType(TxtBool)
  /\ TheValue = Given(<<" ", "T", "R", "U", "E", " ">>)
  /\ Body = <<1>>

\* C10: at a string argument whose text is n bytes of UTF-8, the 4 bytes of n,
\* little-endian, and then the n bytes are written and the offset advances by
\* 4 + n, unless the buffer has no room for them and the encode fails.
StringStep ==
  (InLoop /\ CurTypeName = TxtString)
  => \/ Wrote(LittleEndian(Big(FALSE, NatMag(Len(Utf8(OrEmpty(CurValue))))), 4)
              \o Utf8(OrEmpty(CurValue)))
     \/ FailedForRoom(4 + Len(Utf8(OrEmpty(CurValue))))

StringEncoding == [][StringStep]_vars
\* The text of a length-prefixed write: the 4 bytes of the length, then the
\* bytes of the text.
FramedText(t) == LittleEndian(Big(FALSE, NatMag(Len(Utf8(t)))), 4) \o Utf8(t)

\* C11: at an account-identifier argument, a text that decodes to a public key
\* is written as the 32 bytes of the key and the offset advances by 32, unless
\* the buffer has no room for them and the encode fails; a missing text and a
\* text that is no public key make the encode fail with the message of an
\* invalid public key, and the buffer and the offset are left as they were.
PubkeyStep ==
  (InLoop /\ CurTypeName \in {TxtPublickey, TxtPubkey})
  => IF PublicKeyBytes(CurValue).ok
     THEN /\ Len(PublicKeyBytes(CurValue).bytes) = PublicKeyLength
          /\ \/ Wrote(PublicKeyBytes(CurValue).bytes)
             \/ FailedForRoom(PublicKeyLength)
     ELSE /\ pc' = "failed"
          /\ responseMessage' = <<"Invalid PublicKey for ">> \o CurArg.name
          /\ argsBuffer' = argsBuffer
          /\ offset' = offset

PubkeyEncoding == [][PubkeyStep]_vars

\* C12: an encode that has failed at an argument has built no payload, and its
\* message names that argument.
FailureNamesArgument ==
  pc = "failed"
  => /\ finalBuffer = <<>>
     /\ Contains(responseMessage, CurArg.name)

IsOption(type) == type.tag \in {"option", "coption"}

\* The type inside the options of a type.
RECURSIVE Unwrapped(_)
Unwrapped(type) == IF IsOption(type) THEN Unwrapped(type.of) ELSE type

\* The argument the loop is at, with its type out of its options.
BareArg == [name |-> CurArg.name, type |-> Unwrapped(CurArg.type)]

\* The step did what the pass w does: the buffer and the offset of w, or the
\* failure of w.
SameAs(w) ==
  IF w.ok
  THEN pc' = "encoding" /\ argsBuffer' = w.buffer /\ offset' = offset + w.written
  ELSE pc' = "failed" /\ responseMessage' = w.msg

\* C13: a type name resolves to itself, an option and a coption resolve to
\* what their element resolves to, and the pass of the loop at an argument
\* whose type is in options does to the buffer, the offset and the outcome of
\* the encode what it does at an argument of the type inside them.
OptionStep ==
  /\ (InLoop /\ CurArg.type.tag = "name") => CurResolvedType = CurArg.type.name
  /\ (InLoop /\ IsOption(CurArg.type))
     => /\ CurResolvedType = resolveArgType(CurArg.type.of)
        /\ CurResolvedType = resolveArgType(Unwrapped(CurArg.type))
        /\ SameAs(PassAt(argsBuffer, offset, BareArg, CurValue,
                         ToLowerCase(resolveArgType(BareArg.type))))

OptionTransparent == [][OptionStep]_vars

\* An i64 in a coption and an option was encoded as the 8 bytes of -1.
OptionTransparentWitness ==
  /\ pc = "built"
  /\ Len(instruction.args) = 1
  /\ TheArg.type.tag = "coption"
  /\ TheArg.type.of.tag = "option"
  /\ TheArg.type.of.of = NameType(<<"i", "6", "4">>)
  /\ TheValue = Given(<<"-", "1">>)
  /\ Body = [i \in 1..8 |-> 255]

\* A type that the claim calls of unknown kind: a vector, an array, a defined
\* type, and a name that is none of those the loop has a branch for.
IsUnknownKind(type) ==
  \/ type.tag \in {"vec", "array", "defined"}
  \/ type.tag = "name" /\ ToLowerCase(type.name) \notin NamedTypeNames

\* C14: at an argument of unknown kind the 4 bytes of the length of the text,
\* little-endian, and then the text are written and the offset advances by
\* 4 + n, unless the buffer has no room for them and the encode fails.
FallbackStep ==
  (InLoop /\ IsUnknownKind(CurArg.type))
  => \/ Wrote(FramedText(OrEmpty(CurValue)))
     \/ FailedForRoom(Len(FramedText(OrEmpty(CurValue))))

FallbackEncoding == [][FallbackStep]_vars

(***************************************************************************)
(* The properties of the decoder                                           *)
(***************************************************************************)
\* The value of an entry is the message the catch pushes.
IsDecodeError(value) == value # <<>> /\ Head(value) = "Decode error: "

\* The bytes left to read, and the n bytes at the offset.
Remaining == Len(retBuffer) - retOffset
NextBytes(n) == SubSeq(retBuffer, retOffset + 1, retOffset + n)

\* The bytes at the offset are enough for a field of the type: 1, 2, 4, 8 or
\* 16 for an integer kind, 1 for bool, 32 for pubkey, and for string and bytes
\* the 4 of the length and as many more as the length says.
Satisfiable(type) ==
  IF type \in IntKinds THEN Remaining >= BitsOf[type] \div 8
  ELSE IF type = TxtBool THEN Remaining >= 1
  ELSE IF type = TxtPubkey THEN Remaining >= PublicKeyLength
  ELSE /\ type \in {TxtString, TxtBytes}
       /\ Remaining >= 4
       /\ CmpMag(Norm(NextBytes(4)), NatMag(Remaining - 4)) <= 0

\* The pass of the loop pushed one entry, for the field the loop is at.
PushedEntry ==
  /\ Len(retDecoded') = Len(retDecoded) + 1
  /\ SubSeq(retDecoded', 1, Len(retDecoded)) = retDecoded
  /\ retDecoded'[Len(retDecoded')].type = CurField.type
  /\ retDecoded'[Len(retDecoded')].name = FieldName(CurField.name, Len(retDecoded))

NewValue == retDecoded'[Len(retDecoded')].value

\* The pass pushed a value that is no error and went on to the next field.
WentOn == PushedEntry /\ ~IsDecodeError(NewValue) /\ retPc' = "decoding"
            /\ retIndex' = retIndex + 1

\* The pass pushed an error and left the loop.
BrokeOff == PushedEntry /\ IsDecodeError(NewValue) /\ retPc' = "broken"

FieldStep ==
  InDecodeLoop => IF Satisfiable(CurField.type) THEN WentOn ELSE BrokeOff

\* The entries are those of the first fields of the layout, in its order, and
\* none but the last is an error.
PrefixOfLayout(entries) ==
  /\ Len(entries) <= Len(returnLayout)
  /\ \A k \in 1..Len(entries) :
       /\ entries[k].type = returnLayout[k].type
       /\ entries[k].name = FieldName(returnLayout[k].name, k - 1)
       /\ k < Len(entries) => ~IsDecodeError(entries[k].value)

\* What formatReturnData returned for a payload and a layout: fields that are
\* a prefix of the layout, all of it unless the last entry is an error.
StoppedAtFirstError ==
  (retPc = "done" /\ HasPayload /\ returnLayout # <<>>)
  => /\ returnDataInfo.def
     /\ returnDataInfo.fields.def
     /\ returnDataInfo.fields.val # <<>>
     /\ PrefixOfLayout(returnDataInfo.fields.val)
     /\ Len(returnDataInfo.fields.val) < Len(returnLayout)
        => IsDecodeError(returnDataInfo.fields.val[Len(returnDataInfo.fields.val)].value)

BoolFieldStep ==
  (InDecodeLoop /\ CurField.type = TxtBool /\ Remaining >= 1)
  => /\ PushedEntry
     /\ retOffset' = retOffset + 1
     /\ NewValue = IF retBuffer[retOffset + 1] # 0 THEN TxtTrue ELSE TxtFalse

BoolDecoding == [][BoolFieldStep]_vars

\* text is the decimal text of the integer of the kind whose two's complement,
\* little-endian, is bytes.
IsDecimalOf(text, v, bytes, kind) ==
  /\ v.ok
  /\ BigToString(v.val) = text
  /\ InRange(v.val, kind)
  /\ IsTwosComplementLE(bytes, v.val, BitsOf[kind])

\* C17: at a field of an integer kind of b bits with b/8 bytes left, the value
\* is the decimal text of the integer of the kind that those bytes are the
\* little-endian two's complement of, and the offset advances by b/8; with
\* fewer bytes left the value is a decode error.
IntFieldStep ==
  (InDecodeLoop /\ CurField.type \in IntKinds)
  => IF Remaining >= BitsOf[CurField.type] \div 8
     THEN /\ WentOn
          /\ retOffset' = retOffset + BitsOf[CurField.type] \div 8
          /\ IsDecimalOf(NewValue, parseBigIntInput(Given(NewValue), <<>>),
                         NextBytes(BitsOf[CurField.type] \div 8), CurField.type)
     ELSE BrokeOff

IntDecoding == [][IntFieldStep]_vars

\* u32 amount and bool active on 0A 00 00 00 01: "10" and "true".
IntDecodingWitness ==
  /\ retPc = "done"
  /\ retBuffer = <<10, 0, 0, 0, 1>>
  /\ returnDataInfo.fields.val
     = <<[name |-> TxtAmount, type |-> <<"u", "3", "2">>, value |-> <<"1", "0">>],
         [name |-> TxtActive, type |-> TxtBool, value |-> TxtTrue]>>

\* The texts whose UTF-8 is among the payloads.
FramedTexts == {TxtHello, <<>>, <<"e'", "EUR">>, <<"H", "i">>}

\* text writes bytes in hexadecimal, two digits a byte.
IsHexOf(text, bytes) ==
  /\ Len(text) = 2 * Len(bytes)
  /\ \A k \in 1..Len(bytes) :
       /\ DigitVal(text[2 * k - 1]) < 16
       /\ DigitVal(text[2 * k]) < 16
       /\ 16 * DigitVal(text[2 * k - 1]) + DigitVal(text[2 * k]) = bytes[k]

\* The value pushed for content: the text that content is the UTF-8 of, for a
\* string; content in hexadecimal, for bytes.
IsValueOfContent(value, content, type) ==
  IF type = TxtString
  THEN \A t \in FramedTexts : Utf8(t) = content => value = t
  ELSE IsHexOf(value, content)

\* The length the 4 bytes at the offset write.
FramedLength == MagToNat(Norm(NextBytes(4)))

\* C18: at a string or bytes field with 4 bytes left that write a length n,
\* and n more bytes left after them, the offset advances by 4 + n and the value
\* is the n bytes as UTF-8 text, for a string, and in hexadecimal, for bytes;
\* with fewer than 4 bytes left, or fewer than n after them, the value is a
\* decode error.
FramedFieldStep ==
  (InDecodeLoop /\ CurField.type \in {TxtString, TxtBytes})
  => IF Satisfiable(CurField.type)
     THEN /\ WentOn
          /\ retOffset' = retOffset + 4 + FramedLength
          /\ IsValueOfContent(NewValue,
                              SubSeq(retBuffer, retOffset + 5, retOffset + 4 + FramedLength),
                              CurField.type)
     ELSE BrokeOff

FramedDecoding == [][FramedFieldStep]_vars

\* A string field gave "Hello", and a bytes field its bytes in hexadecimal.
FramedDecodingWitness ==
  /\ retPc = "done"
  /\ retBuffer = Framed(Utf8(TxtHello))
  /\ returnDataInfo.fields.val
     = <<[name |-> TxtAmount, type |-> TxtString, value |-> TxtHello]>>

\* The argument a text is encoded as, and the text as its value.
PubkeyArg == [name |-> <<"q", "1">>, type |-> NameType(TxtPubkey)]

\* C19: at a pubkey field with 32 bytes left, the offset advances by 32 and the
\* value is a text that the encoder takes for a public key and encodes as
\* those 32 bytes; with fewer bytes left the value is a decode error.
PubkeyFieldStep ==
  (InDecodeLoop /\ CurField.type = TxtPubkey)
  => IF Remaining >= PublicKeyLength
     THEN /\ WentOn
          /\ retOffset' = retOffset + PublicKeyLength
          /\ PublicKeyBytes(Given(NewValue)).ok
          /\ EncodingOf(PubkeyArg, Given(NewValue)) = NextBytes(PublicKeyLength)
     ELSE BrokeOff

PubkeyRoundTrip == [][PubkeyFieldStep]_vars

\* 32 zero bytes gave the text of 32 times "1".
PubkeyRoundTripWitness ==
  /\ retPc = "done"
  /\ retBuffer = Repeat(PublicKeyLength, 0)
  /\ returnDataInfo.fields.val
     = <<[name |-> TxtAmount, type |-> TxtPubkey, value |-> TxtZeroKey]>>

\* info reports the payload p as it was sent and in hexadecimal.
ReportsRaw(info, p) ==
  /\ info.def
  /\ info.programId = rawReturnData.programId
  /\ info.base64 = Base64Encode(p)
  /\ IsHexOf(info.hex, p)

\* text is the decimal text of the unsigned integer that bytes write
\* little-endian.
IsUnsignedDecimalOf(text, v, bytes) ==
  /\ v.ok
  /\ BigToString(v.val) = text
  /\ ~v.val.neg
  /\ v.val.mag = Norm(bytes)

\* info has a default value exactly for an empty layout and a payload of 8
\* bytes, and the value is that of the 8 bytes as a u64.
DefaultOnlyForEight(info, p) ==
  /\ info.decoded.def <=> (returnLayout = <<>> /\ Len(p) = 8)
  /\ info.decoded.def
     => IsUnsignedDecimalOf(info.decoded.val,
                            parseBigIntInput(Given(info.decoded.val), <<>>), p)
  /\ info.fields.def <=> returnLayout # <<>>

\* C20: what formatReturnData returns for a payload reports the payload in
\* base 64 and in hexadecimal whatever the layout; it reports a default value,
\* the payload read as a little-endian u64, exactly when the layout is empty
\* and the payload is 8 bytes long.
DefaultU64 ==
  (retPc = "done" /\ HasPayload)
  => \A p \in Payloads :
       rawReturnData.data[1] = Base64Encode(p)
       => ReportsRaw(returnDataInfo, p) /\ DefaultOnlyForEight(returnDataInfo, p)

\* 8 bytes of 255 and no layout: the default value is 2^64 - 1.
DefaultU64Witness ==
  /\ retPc = "done"
  /\ returnLayout = <<>>
  /\ retBuffer = Repeat(8, 255)
  /\ returnDataInfo.decoded = Present(BigToString(MaxOf(64, FALSE)))
  /\ returnDataInfo.hex = [k \in 1..16 |-> "f"]

\* The name the claim gives the k-th field of the layout: its name trimmed,
\* field_k when nothing is left of it.
NameOfPosition(k) ==
  IF \A j \in 1..Len(returnLayout[k].name) : IsSpace(returnLayout[k].name[j])
  THEN <<"field_">> \o DecimalDigits(NatMag(k))
  ELSE Trim(returnLayout[k].name)

\* C23: every entry of the decoder's output has the name of the field at its
\* position in the layout, trimmed, and field_N, N the position counted from
\* 1, when that name is empty or of spaces only.
FieldNaming ==
  (retPc \in {"decoding", "broken", "done"})
  => \A k \in 1..Len(retDecoded) : retDecoded[k].name = NameOfPosition(k)

\* A field with no name after a named one is field_2.
FieldNamingWitness ==
  /\ retPc = "done"
  /\ returnLayout = <<Field(TxtAmount, <<"u", "8">>), Field(<<>>, <<"u", "8">>)>>
  /\ retBuffer = <<255, 255>>
  /\ Len(returnDataInfo.fields.val) = 2
  /\ returnDataInfo.fields.val[1].name = TxtAmount
  /\ returnDataInfo.fields.val[2].name = <<"field_", "2">>

\* The bytes a field of the type takes at an offset of the payload.
SizeAt(at, type) ==
  IF type \in IntKinds THEN BitsOf[type] \div 8
  ELSE IF type = TxtBool THEN 1
  ELSE IF type = TxtPubkey THEN PublicKeyLength
  ELSE 4 + MagToNat(Norm(SubSeq(retBuffer, at + 1, at + 4)))

Advance(at, type) == at + SizeAt(at, type)

\* The offset after the first k fields of the layout.
RECURSIVE OffsetAfter(_)
OffsetAfter(k) ==
  IF k = 0 THEN 0 ELSE Advance(OffsetAfter(k - 1), returnLayout[k].type)

\* C24: the read offset of the decode is never below 0 nor past the end of the
\* payload, and while the loop goes on it is the sum of the sizes of the fields
\* decoded so far.
OffsetWithinPayload ==
  /\ retOffset >= 0
  /\ retOffset <= Len(retBuffer)
  /\ retPc = "decoding" => retOffset = OffsetAfter(retIndex - 1)

\* Two fields were decoded and the offset is at the end of a payload.
OffsetWithinPayloadWitness ==
  /\ retPc = "decoding"
  /\ retIndex = 3
  /\ retOffset = 5
  /\ retBuffer = <<10, 0, 0, 0, 1>>

(***************************************************************************)
(* The properties of the discriminator                                     *)
(***************************************************************************)
\* An underscore before every upper-case letter of str from the i-th on that
\* is not the first character, and every letter lower-cased.
RECURSIVE Underscored(_, _)
Underscored(str, i) ==
  IF i > Len(str) THEN <<>>
  ELSE (IF IsUpper(str[i]) /\ i > 1 THEN <<"_">> ELSE <<>>)
       \o <<LowerChar(str[i])>> \o Underscored(str, i + 1)

\* C21: the name the discriminator is made of is the name of the method with
\* an underscore before every upper-case letter that is not its first
\* character, all in lower case and nothing else added or removed; the 8 bytes
\* at the head of the buffer are the first 8 bytes of the hash of "global:"
\* and that name.
DiscriminatorOfName ==
  (pc = "encoding" /\ argIndex = 1)
  => /\ toSnakeCase(instruction.name) = Underscored(instruction.name, 1)
     /\ offset = DiscriminatorLength
     /\ SubSeq(argsBuffer, 1, DiscriminatorLength)
        = Sha256First8(TxtGlobal \o Underscored(instruction.name, 1))

(***************************************************************************)
(* The properties of the modal                                             *)
(***************************************************************************)
\* The bytes of a call of handleSend that starts on a fresh buffer, from the
\* i-th argument on with the cursor at `at`.
RECURSIVE EncodedFrom(_, _, _)
EncodedAfter(w, at, i) ==
  IF w.ok THEN EncodedFrom(w.buffer, at + w.written, i + 1) ELSE <<"throws">>

EncodedFrom(buffer, at, i) ==
  IF i > Len(instruction.args) THEN BufferSlice(buffer, 0, at)
  ELSE EncodedAfter(PassAt(buffer, at, instruction.args[i],
                           ValueOf(argValues, instruction.args[i].name),
                           ToLowerCase(resolveArgType(instruction.args[i].type))),
                    at, i)

EncodedAlone ==
  EncodedFrom(BufferCopy(getInstructionDiscriminator(instruction.name),
                         BufferAlloc(BufferCapacity), 0),
              DiscriminatorLength, 1)

\* C22: encode and decode keep no state between calls.  Whatever calls came
\* before, the bytes handleSend has built are those that the method and the
\* value map give on a fresh buffer with the cursor at 8, and the fields that
\* formatReturnData returned are those that the payload and the layout give
\* with the cursor at 0.
CodecStateless ==
  /\ pc = "built" => finalBuffer = EncodedAlone
  /\ (retPc = "done" /\ returnDataInfo.def /\ returnLayout # <<>>)
       => /\ returnDataInfo.fields.def
          /\ returnDataInfo.fields.val =
               decodeWithLayout(Base64Decode(rawReturnData.data[1]), returnLayout)

\* A call of handleSend has built its bytes after an earlier call was
\* answered and its return data decoded: the decoder's cursor is where that
\* decoding left it.
CodecStatelessWitness ==
  /\ pc = "built"
  /\ instruction.args # <<>>
  /\ argValues = Put(<<>>, ArgNameAt(1), <<"7">>)
  /\ finalBuffer = getInstructionDiscriminator(instruction.name) \o <<7>>
  /\ rawReturnData = Null
  /\ retBuffer = <<10, 0, 0, 0, 1>>
  /\ retOffset = 1
  /\ Len(retDecoded) = 1

\* C25: the public key of every account in the body that handleSend posts is
\* the value that accountValues holds for the account when Send is pressed.
PayloadShowsAccountValues ==
  [][(pc = "built" /\ pc' = "fetching")
       => \A k \in 1..Len(instruction.accounts) :
            request'.accounts[k].pubkey =
              OrEmpty(ValueOf(accountValues, instruction.accounts[k].name))]_vars

\* C26: when handleSend has finished, a message is there only with a status.
MessageHasStatus ==
  (pc \in {"returned", "failed", "sent"} /\ responseMessage # <<>>) => responseStatus # <<>>

\* handleSend is running, or waits for the answer.
InFlight == pc \in {"encoding", "built", "fetching", "parsing"}

\* A step that starts handleSend.
StartsSend ==
  \/ pc' = "encoding" /\ pc # "encoding"
  \/ pc' = "returned" /\ pc # "returned"

\* C27: isSending is true exactly while a call of handleSend is between its
\* start and its end, no call starts while it is true, and it becomes false
\* again on every path.
SendingEnds ==
  /\ [](isSending <=> InFlight)
  /\ [][StartsSend => ~isSending /\ ~InFlight]_vars
  /\ (isSending ~> ~isSending)

\* A call that ended in the catch block after the request failed.
SendingEndsWitness ==
  /\ pc = "failed"
  /\ ~isSending
  /\ responseMessage = <<"Failed to fetch">>
  /\ responseStatus = <<500>>

\* C28: a failure of the encoder on the value of an argument ends with the
\* status 400, a failure of the request with 500, and both leave no logs and
\* no return data.
StatusOfFailure ==
  [][(pc' = "failed" /\ pc # "failed")
       => /\ pc = "encoding" => responseStatus' = <<400>>
          /\ pc \in {"fetching", "parsing"} => responseStatus' = <<500>>
          /\ txLogs' = <<>>
          /\ rawReturnData' = Null
          /\ returnDataInfo' = Null]_vars


(***************************************************************************)
(* The properties of InstructionBuilder                                    *)
(***************************************************************************)
\* C29: what executeTransaction submits as the instruction data is the packing
\* of the field list of that moment.
SubmitsCurrentPacking ==
  [][(submitted'.def /\ ~submitted.def)
       => submitted'.instruction_data = PackingOf(fields)]_vars


(***************************************************************************)
(* The properties of WalletContextProvider                                 *)
(***************************************************************************)
\* A step that calls connect().
InitiatesConnect == Len(connects') > Len(connects)

\* C30: at most one connect timer is pending and at most one connect() is
\* outstanding, and connect() is called only with a wallet selected that is
\* neither connected nor connecting.
OneConnectAtATime ==
  /\ [](Len(timers) <= 1 /\ Len(connects) <= 1)
  /\ [][InitiatesConnect => wallet.def /\ ~connected /\ ~connecting]_vars

\* A connect() is outstanding and the effect ran again on a wallet that is
\* ready and not connected: it set no timer.
OneConnectAtATimeWitness ==
  /\ connects = <<"Phantom">>
  /\ isConnectingRef
  /\ wallet = Wallet("Solflare", "Installed")
  /\ ~connected
  /\ ~connecting
  /\ timers = <<>>

=============================================================================
